---------------------------- MODULE Spec2Model ----------------------------
(***************************************************************************)
(* Model of the spreadsheet-processor pipeline                             *)
(* (src/components/spreadsheet-processor.tsx, updatePreview and the        *)
(* handlers around it) and of the two missing-lookup-value auditors        *)
(* (checkForMissingLookupValues in spreadsheet-processor.tsx and           *)
(* getMissingLookupValues in the processing panel, src/unnamed/part_001).  *)
(*                                                                         *)
(* JavaScript strings are sequences of one-character strings, so that      *)
(* trim, toLowerCase, String(), Number() and template literals are         *)
(* computed rather than assumed.  A JavaScript value is a record           *)
(* [t, s, n, d]: t is the type tag, s the characters of a string, n/d the  *)
(* reduced fraction of a finite number.  A row (Record<string, any>) is a  *)
(* function whose DOMAIN is the set of keys present in the object.         *)
(***************************************************************************)
EXTENDS Integers, Sequences, FiniteSets, TLC

-----------------------------------------------------------------------------
(* JavaScript values *)

Str(s) == [t |-> "str", s |-> s, n |-> 0, d |-> 1]

Abs(x) == IF x < 0 THEN -x ELSE x

RECURSIVE Gcd(_, _)
Gcd(a, b) == IF b = 0 THEN a ELSE Gcd(b, a % b)

\* a finite number n/d in lowest terms with d > 0 (-0 is not distinguished
\* from 0: String(-0) is "0" and -0 === 0)
Rat(n, d) ==
  LET g == Gcd(Abs(n), Abs(d))
      sgn == IF d < 0 THEN -1 ELSE 1
  IN [t |-> "num", s |-> <<>>, n |-> sgn * (n \div g), d |-> sgn * (d \div g)]

Num(n) == [t |-> "num", s |-> <<>>, n |-> n, d |-> 1]

NaN == [t |-> "nan", s |-> <<>>, n |-> 0, d |-> 1]

PosInf == [t |-> "inf", s |-> <<>>, n |-> 1, d |-> 1]

NegInf == [t |-> "inf", s |-> <<>>, n |-> -1, d |-> 1]

Null == [t |-> "null", s |-> <<>>, n |-> 0, d |-> 1]

Undef == [t |-> "undef", s |-> <<>>, n |-> 0, d |-> 1]

\* the strict equality operator === : same type and same value, NaN equal
\* to nothing
StrictEq(a, b) == a.t # "nan" /\ a = b

\* ToBoolean
Truthy(v) ==
  CASE v.t = "str" -> v.s # <<>>
    [] v.t = "num" -> v.n # 0
    [] v.t = "inf" -> TRUE
    [] OTHER -> FALSE

-----------------------------------------------------------------------------
(* Strings *)

DigitChars == <<"0", "1", "2", "3", "4", "5", "6", "7", "8", "9">>

DigitSet == {DigitChars[i] : i \in 1..10}

DigitVal(c) == (CHOOSE i \in 1..10 : DigitChars[i] = c) - 1

UpperChars == <<"A", "B", "C", "E", "F", "I", "K", "N", "S", "T", "V">>

LowerChars == <<"a", "b", "c", "e", "f", "i", "k", "n", "s", "t", "v">>

\* String.prototype.toLowerCase on one character of the model's alphabet
LowerChar(c) ==
  IF \E i \in 1..Len(UpperChars) : UpperChars[i] = c
  THEN LowerChars[CHOOSE i \in 1..Len(UpperChars) : UpperChars[i] = c]
  ELSE c

ToLowerCase(s) == [i \in 1..Len(s) |-> LowerChar(s[i])]

RECURSIVE TrimStart(_)
TrimStart(s) ==
  IF s # <<>> /\ Head(s) = " " THEN TrimStart(Tail(s)) ELSE s

RECURSIVE TrimEnd(_)
TrimEnd(s) ==
  IF s # <<>> /\ s[Len(s)] = " " THEN TrimEnd(SubSeq(s, 1, Len(s) - 1)) ELSE s

\* String.prototype.trim (the model's only white space is the blank)
Trim(s) == TrimEnd(TrimStart(s))

RECURSIVE NatDigits(_)
NatDigits(n) ==
  IF n < 10 THEN <<DigitChars[n + 1]>>
  ELSE NatDigits(n \div 10) \o <<DigitChars[(n % 10) + 1]>>

\* fraction digits of r/d by long division, at most k of them; a terminating
\* expansion is exact, a repeating one is cut after k digits
RECURSIVE FracDigits(_, _, _)
FracDigits(r, d, k) ==
  IF r = 0 \/ k = 0 THEN <<>>
  ELSE <<DigitChars[((r * 10) \div d) + 1]>> \o FracDigits((r * 10) % d, d, k - 1)

\* Number.prototype.toString for a finite number n/d
NumberToString(n, d) ==
  LET a == Abs(n)
      sign == IF n < 0 THEN <<"-">> ELSE <<>>
      frac == FracDigits(a % d, d, 16)
  IN sign \o NatDigits(a \div d) \o (IF frac = <<>> THEN <<>> ELSE <<".">> \o frac)

\* String(v), also the conversion of a template literal `${v}`
StringOf(v) ==
  CASE v.t = "str" -> v.s
    [] v.t = "num" -> NumberToString(v.n, v.d)
    [] v.t = "nan" -> <<"N", "a", "N">>
    [] v.t = "inf" ->
         (IF v.n < 0 THEN <<"-">> ELSE <<>>) \o <<"I", "n", "f", "i", "n", "i", "t", "y">>
    [] v.t = "null" -> <<"n", "u", "l", "l">>
    [] OTHER -> <<"u", "n", "d", "e", "f", "i", "n", "e", "d">>

AllDigits(s) == \A i \in 1..Len(s) : s[i] \in DigitSet

RECURSIVE DigitsToNat(_)
DigitsToNat(s) ==
  IF s = <<>> THEN 0 ELSE DigitsToNat(SubSeq(s, 1, Len(s) - 1)) * 10 + DigitVal(s[Len(s)])

RECURSIVE Pow10(_)
Pow10(k) == IF k = 0 THEN 1 ELSE 10 * Pow10(k - 1)

DotAt(s) == IF \E i \in 1..Len(s) : s[i] = "." THEN CHOOSE i \in 1..Len(s) : s[i] = "." ELSE 0

\* StringToNumber on an unsigned decimal literal: digits, optionally a point
UnsignedToNumber(s) ==
  LET p == DotAt(s)
      ip == IF p = 0 THEN s ELSE SubSeq(s, 1, p - 1)
      fp == IF p = 0 THEN <<>> ELSE SubSeq(s, p + 1, Len(s))
  IN IF s = <<"I", "n", "f", "i", "n", "i", "t", "y">> THEN PosInf
     ELSE IF AllDigits(ip) /\ AllDigits(fp) /\ Len(ip) + Len(fp) > 0
     THEN Rat(DigitsToNat(ip) * Pow10(Len(fp)) + DigitsToNat(fp), Pow10(Len(fp)))
     ELSE NaN

Negate(v) ==
  CASE v.t = "num" -> Rat(-v.n, v.d)
    [] v.t = "inf" -> IF v.n < 0 THEN PosInf ELSE NegInf
    [] OTHER -> v

\* Number(string): white space is trimmed, the empty string is 0, a signed
\* decimal literal is its value, anything else is NaN
StringToNumber(s) ==
  LET u == Trim(s)
  IN IF u = <<>> THEN Num(0)
     ELSE IF Head(u) = "-" THEN Negate(UnsignedToNumber(Tail(u)))
     ELSE IF Head(u) = "+" THEN UnsignedToNumber(Tail(u))
     ELSE UnsignedToNumber(u)

\* Number(v)
ToNumber(v) ==
  CASE v.t = "str" -> StringToNumber(v.s)
    [] v.t = "null" -> Num(0)
    [] v.t = "undef" -> NaN
    [] OTHER -> v

-----------------------------------------------------------------------------
(* Arithmetic on numbers (IEEE 754 special values; finite values exact) *)

NumAdd(a, b) ==
  CASE a.t = "nan" \/ b.t = "nan" -> NaN
    [] a.t = "inf" /\ b.t = "inf" -> IF a.n = b.n THEN a ELSE NaN
    [] a.t = "inf" -> a
    [] b.t = "inf" -> b
    [] OTHER -> Rat(a.n * b.d + b.n * a.d, a.d * b.d)

NumSub(a, b) == NumAdd(a, Negate(b))

Sign(v) == IF v.n < 0 THEN -1 ELSE 1

NumMul(a, b) ==
  CASE a.t = "nan" \/ b.t = "nan" -> NaN
    [] a.t = "inf" \/ b.t = "inf" ->
         IF (a.t = "num" /\ a.n = 0) \/ (b.t = "num" /\ b.n = 0) THEN NaN
         ELSE IF Sign(a) * Sign(b) < 0 THEN NegInf ELSE PosInf
    [] OTHER -> Rat(a.n * b.n, a.d * b.d)

NumDiv(a, b) ==
  CASE a.t = "nan" \/ b.t = "nan" -> NaN
    [] a.t = "inf" /\ b.t = "inf" -> NaN
    [] a.t = "inf" -> IF Sign(a) * Sign(b) < 0 THEN NegInf ELSE PosInf
    [] b.t = "inf" -> Num(0)
    [] b.n = 0 -> IF a.n = 0 THEN NaN ELSE IF a.n < 0 THEN NegInf ELSE PosInf
    [] OTHER -> Rat(a.n * b.d, a.d * b.n)

\* the relational operators > and < on two numbers; false when one is NaN
NumLess(a, b) ==
  CASE a.t = "nan" \/ b.t = "nan" -> FALSE
    [] a.t = "inf" /\ b.t = "inf" -> a.n < b.n
    [] a.t = "inf" -> a.n < 0
    [] b.t = "inf" -> b.n > 0
    [] OTHER -> a.n * b.d < b.n * a.d

\* the binary + of the language: concatenation when an operand is a string
JsPlus(a, b) ==
  IF a.t = "str" \/ b.t = "str" THEN Str(StringOf(a) \o StringOf(b))
  ELSE NumAdd(ToNumber(a), ToNumber(b))

\* the binary * of the language
JsTimes(a, b) == NumMul(ToNumber(a), ToNumber(b))

\* one element of Array.prototype.join: null and undefined print as ""
JoinElem(v) == IF v.t \in {"null", "undef"} THEN <<>> ELSE StringOf(v)

RECURSIVE JoinAll(_)
JoinAll(vs) == IF vs = <<>> THEN <<>> ELSE JoinElem(Head(vs)) \o JoinAll(Tail(vs))

-----------------------------------------------------------------------------
(* Rows: DataRow = Record<string, any> *)

EmptyRow == [k \in {} |-> Undef]

\* row[col]: undefined when the key is not present
Get(row, col) == IF col \in DOMAIN row THEN row[col] ELSE Undef

\* row[col] = v
Put(row, col, v) == [k \in (DOMAIN row) \cup {col} |-> IF k = col THEN v ELSE row[k]]

\* Array.prototype.find / some as the index of the first element satisfying
\* Test, 0 when there is none
FirstIndex(seq, Test(_)) ==
  IF \E i \in 1..Len(seq) : Test(seq[i])
  THEN CHOOSE i \in 1..Len(seq) : Test(seq[i]) /\ \A j \in 1..(i - 1) : ~Test(seq[j])
  ELSE 0

-----------------------------------------------------------------------------
(* Formula Evaluator: the custom case of updatePreview.  A formula is the
   record [op, a, b]: "ref" is the text `a`, "mul" is `a * b`, "add" is
   `a + b`, "deref" is `a.x.y`, "syntax" is a text that does not parse and
   "none" is the empty text.  Identifiers of the model name no global. *)

NonIdentChars == {" ", "-", ".", ":", "\"", "+"}

\* key.replace(/[^a-zA-Z0-9_]/g, "_")
SafeKey(key) == [i \in 1..Len(key) |-> IF key[i] \in NonIdentChars THEN "_" ELSE key[i]]

IsIdentifier(s) ==
  /\ s # <<>>
  /\ Head(s) \notin DigitSet
  /\ \A i \in 1..Len(s) : s[i] \notin NonIdentChars

SafeKeys(row) == {SafeKey(k) : k \in DOMAIN row}

\* evalContext[safeKey] = Number(newRow[key]) || newRow[key]
ContextValue(row, sk) ==
  LET raw == row[CHOOSE k \in DOMAIN row : SafeKey(k) = sk]
      num == ToNumber(raw)
  IN IF Truthy(num) THEN num ELSE raw

\* safeFormula.replace(new RegExp(`\\b${key}\\b`, "g"), safeKey) on one
\* identifier of the formula
RewriteIdent(ident, row) == IF ident \in DOMAIN row THEN SafeKey(ident) ELSE ident

\* the identifier parses and names a parameter of the generated function
IsBound(ident, row) ==
  LET r == RewriteIdent(ident, row) IN IsIdentifier(r) /\ r \in SafeKeys(row)

Operand(ident, row) == ContextValue(row, RewriteIdent(ident, row))

Failed == [ok |-> FALSE, v |-> Undef]

Returned(v) == [ok |-> TRUE, v |-> v]

\* new Function(...Object.keys(evalContext), `return ${safeFormula}`)(...values);
\* ok = FALSE when the construction or the call throws
EvalFormula(f, row) ==
  IF \E sk \in SafeKeys(row) : ~IsIdentifier(sk) THEN Failed
  ELSE CASE f.op = "ref" ->
              IF IsBound(f.a, row) THEN Returned(Operand(f.a, row)) ELSE Failed
         [] f.op = "mul" ->
              IF IsBound(f.a, row) /\ IsBound(f.b, row)
              THEN Returned(JsTimes(Operand(f.a, row), Operand(f.b, row)))
              ELSE Failed
         [] f.op = "add" ->
              IF IsBound(f.a, row) /\ IsBound(f.b, row)
              THEN Returned(JsPlus(Operand(f.a, row), Operand(f.b, row)))
              ELSE Failed
         [] OTHER -> Failed

ErrorValue == Str(<<"E", "r", "r", "o", "r">>)

-----------------------------------------------------------------------------
(* Lookup Resolver: the xlookup case of updatePreview *)

\* the predicate handed to find(): the three tiers, tried on one row
LookupMatches(compareValue, lookupValue) ==
  \/ StrictEq(compareValue, lookupValue)
  \/ Trim(StringOf(compareValue)) = Trim(StringOf(lookupValue))
  \/ Trim(ToLowerCase(StringOf(compareValue))) = Trim(ToLowerCase(StringOf(lookupValue)))

\* table.find((r) => ...) as an index into the table, 0 for undefined
FindRow(table, lookupColumn, lookupValue) ==
  FirstIndex(table, LAMBDA r : LookupMatches(Get(r, lookupColumn), lookupValue))

\* supportSheets.find((s) => s.id === id), 0 for undefined
FindSheet(sheets, id) == FirstIndex(sheets, LAMBDA sh : sh.id = id)

\* `Not found: "${lookupValue}"`
NotFound(lookupValue) ==
  Str(<<"N", "o", "t", " ", "f", "o", "u", "n", "d", ":", " ", "\"">>
      \o StringOf(lookupValue) \o <<"\"">>)

\* result, starting from null, after the search of the target table
LookupResult(transform, lookupValue, filteredData, sheets) ==
  IF transform.lookupSheet = "main"
  THEN LET i == FindRow(filteredData, transform.lookupColumn, lookupValue)
       IN IF i # 0 THEN Get(filteredData[i], transform.returnColumn) ELSE Null
  ELSE LET k == FindSheet(sheets, transform.lookupSheet)
       IN IF k = 0 THEN Null
          ELSE LET i == FindRow(sheets[k].data, transform.lookupColumn, lookupValue)
               IN IF i # 0 THEN Get(sheets[k].data[i], transform.returnColumn) ELSE Null

XLookup(newRow, transform, filteredData, sheets) ==
  LET lookupValue == Get(newRow, transform.sourceColumns[1])
      result == LookupResult(transform, lookupValue, filteredData, sheets)
  IN IF result = Null
     THEN Put(newRow, transform.newColumnName, NotFound(lookupValue))
     ELSE Put(newRow, transform.newColumnName, result)

-----------------------------------------------------------------------------
(* Transform Engine: the switch of updatePreview on transform.type *)

ArithmeticTypes == {"multiply", "add", "subtract", "divide"}

Arithmetic(type, x, y) ==
  CASE type = "multiply" -> NumMul(ToNumber(x), ToNumber(y))
    [] type = "add" -> NumAdd(ToNumber(x), ToNumber(y))
    [] type = "subtract" -> NumSub(ToNumber(x), ToNumber(y))
    [] OTHER -> NumDiv(ToNumber(x), ToNumber(y))

Concat(newRow, sourceColumns) ==
  Str(JoinAll([i \in 1..Len(sourceColumns) |-> Get(newRow, sourceColumns[i])]))

\* the error count so far added to the count of one more step
AddErrors(errors, step) == [row |-> step.row, errors |-> errors + step.errors]

\* a switch whose arithmetic cases lack the test of sourceColumns.length: a
\* source column that is not there reads as undefined
ApplyTransformationAnyArity(newRow, transform, filteredData, sheets) ==
  IF transform.type \in ArithmeticTypes
  THEN [row |-> Put(newRow, transform.newColumnName,
                    Arithmetic(transform.type,
                               IF Len(transform.sourceColumns) >= 1
                               THEN Get(newRow, transform.sourceColumns[1]) ELSE Undef,
                               IF Len(transform.sourceColumns) >= 2
                               THEN Get(newRow, transform.sourceColumns[2]) ELSE Undef)),
        errors |-> 0]
  ELSE [row |-> newRow, errors |-> 0]

\* one transformation on one row: the row after it and the number of
\* setFormulaErrorCount((c) => c + 1) calls it made
ApplyTransformation(newRow, transform, filteredData, sheets) ==
  CASE transform.type \in ArithmeticTypes ->
         IF Len(transform.sourceColumns) = 2
         THEN [row |-> Put(newRow, transform.newColumnName,
                           Arithmetic(transform.type,
                                      Get(newRow, transform.sourceColumns[1]),
                                      Get(newRow, transform.sourceColumns[2]))),
               errors |-> 0]
         ELSE [row |-> newRow, errors |-> 0]
    [] transform.type = "concat" ->
         [row |-> Put(newRow, transform.newColumnName, Concat(newRow, transform.sourceColumns)),
          errors |-> 0]
    [] transform.type = "xlookup" ->
         IF /\ transform.lookupSheet # ""
            /\ transform.lookupColumn # <<>>
            /\ transform.returnColumn # <<>>
            /\ Len(transform.sourceColumns) > 0
         THEN [row |-> XLookup(newRow, transform, filteredData, sheets), errors |-> 0]
         ELSE [row |-> newRow, errors |-> 0]
    [] transform.type = "custom" ->
         IF transform.formula.op # "none"
         THEN LET r == EvalFormula(transform.formula, newRow)
              IN IF r.ok
                 THEN [row |-> Put(newRow, transform.newColumnName, r.v), errors |-> 0]
                 ELSE [row |-> Put(newRow, transform.newColumnName, ErrorValue), errors |-> 1]
         ELSE [row |-> newRow, errors |-> 0]
    [] OTHER -> [row |-> newRow, errors |-> 0]

\* Step in which a row that has failed a formula skips the transformations
\* that follow
StepAborting(before, transform, filteredData, sheets) ==
  IF before.errors > 0 THEN before
  ELSE AddErrors(before.errors,
                 ApplyTransformation(before.row, transform, filteredData, sheets))

\* the row and the error count after one more transformation
Step(before, transform, filteredData, sheets) ==
  AddErrors(before.errors, ApplyTransformation(before.row, transform, filteredData, sheets))

\* filteredData as the first n transformations leave it
RECURSIVE LiveTable(_, _, _, _)

\* TransformRow with a "main" table that is not frozen: each step looks up
\* in the rows as the earlier steps have left them
RECURSIVE TransformRowLive(_, _, _, _)
TransformRowLive(row, transformations, filteredData, sheets) ==
  IF transformations = <<>> THEN [row |-> row, errors |-> 0]
  ELSE Step(TransformRowLive(row, SubSeq(transformations, 1, Len(transformations) - 1),
                             filteredData, sheets),
            transformations[Len(transformations)],
            LiveTable(filteredData, transformations, Len(transformations) - 1, sheets),
            sheets)

LiveTable(filteredData, transformations, n, sheets) ==
  [j \in 1..Len(filteredData) |->
     TransformRowLive(filteredData[j], SubSeq(transformations, 1, n), filteredData, sheets).row]

\* TransformRow in which every step reads the row as filtering left it and
\* only its result is added to the accumulated row
RECURSIVE TransformRowStale(_, _, _, _)
TransformRowStale(row, transformations, filteredData, sheets) ==
  IF transformations = <<>> THEN [row |-> row, errors |-> 0]
  ELSE LET before == TransformRowStale(row, SubSeq(transformations, 1, Len(transformations) - 1),
                                       filteredData, sheets)
           transform == transformations[Len(transformations)]
           alone == ApplyTransformation(row, transform, filteredData, sheets)
       IN [row |-> IF alone.row = row THEN before.row
                   ELSE Put(before.row, transform.newColumnName,
                            alone.row[transform.newColumnName]),
           errors |-> before.errors + alone.errors]

\* activePreset.transformations.forEach on one row of filteredData
RECURSIVE TransformRow(_, _, _, _)
TransformRow(row, transformations, filteredData, sheets) ==
  IF transformations = <<>> THEN [row |-> row, errors |-> 0]
  ELSE Step(TransformRow(row, SubSeq(transformations, 1, Len(transformations) - 1),
                         filteredData, sheets),
            transformations[Len(transformations)], filteredData, sheets)

-----------------------------------------------------------------------------
(* Dataset Assembler and column selection: the head of updatePreview.
   An input file is [name, rawData]; rawData is a ragged matrix of cells. *)

SourceFile == <<"S", "o", "u", "r", "c", "e", " ", "F", "i", "l", "e">>

\* the data columns with every header written, null where the row is short
RECURSIVE AddDataColumnsPadded(_, _, _, _)
AddDataColumnsPadded(obj, headers, row, k) ==
  IF k = 0 THEN obj
  ELSE LET sofar == AddDataColumnsPadded(obj, headers, row, k - 1)
       IN IF Truthy(headers[k])
          THEN Put(sofar, StringOf(headers[k]), IF k <= Len(row) THEN row[k] ELSE Null)
          ELSE sofar

\* headers.forEach((header, index) => { if (header && index < row.length)
\*   obj[header] = row[index] }), on the first k headers
RECURSIVE AddDataColumns(_, _, _, _)
AddDataColumns(obj, headers, row, k) ==
  IF k = 0 THEN obj
  ELSE LET sofar == AddDataColumns(obj, headers, row, k - 1)
       IN IF Truthy(headers[k]) /\ k <= Len(row)
          THEN Put(sofar, StringOf(headers[k]), row[k])
          ELSE sofar

AssembleRow(fileName, row, headers, includeSourceFileColumn) ==
  AddDataColumns(IF includeSourceFileColumn THEN Put(EmptyRow, SourceFile, Str(fileName))
                 ELSE EmptyRow,
                 headers, row, Len(headers))

\* inputFile.rawData.slice(headerRow + 1), headerRow being -1 in placeholder mode
DataRows(rawData, headerRow) == SubSeq(rawData, headerRow + 2, Len(rawData))

\* allDataWithHeaders after the first k input files
RECURSIVE Assemble(_, _, _, _, _)
Assemble(files, headers, headerRow, includeSourceFileColumn, k) ==
  IF k = 0 THEN <<>>
  ELSE LET dataRows == DataRows(files[k].rawData, headerRow)
       IN Assemble(files, headers, headerRow, includeSourceFileColumn, k - 1)
          \o [i \in 1..Len(dataRows) |->
                AssembleRow(files[k].name, dataRows[i], headers, includeSourceFileColumn)]

\* the key headers[colIndex] names; "undefined" beyond the header list
HeaderKey(headers, colIndex) ==
  IF colIndex + 1 \in 1..Len(headers) THEN StringOf(headers[colIndex + 1]) ELSE StringOf(Undef)

\* activePreset.selectedColumns.forEach((colIndex) => ...) on the first k entries
RECURSIVE AddSelected(_, _, _, _, _)
AddSelected(filteredRow, row, headers, selectedColumns, k) ==
  IF k = 0 THEN filteredRow
  ELSE LET sofar == AddSelected(filteredRow, row, headers, selectedColumns, k - 1)
           key == HeaderKey(headers, selectedColumns[k])
       IN IF key \in DOMAIN row THEN Put(sofar, key, row[key]) ELSE sofar

SelectColumns(row, headers, preset) ==
  AddSelected(IF preset.includeSourceFileColumn /\ Truthy(Get(row, SourceFile))
              THEN Put(EmptyRow, SourceFile, row[SourceFile])
              ELSE EmptyRow,
              row, headers, preset.selectedColumns, Len(preset.selectedColumns))

-----------------------------------------------------------------------------
(* Filter Engine *)

\* String.prototype.includes
Includes(s, sub) ==
  \E i \in 0..(Len(s) - Len(sub)) : SubSeq(s, i + 1, i + Len(sub)) = sub

\* FilterPasses with the equals case written with ==, which converts a
\* number and a string to numbers before comparing
FilterPassesLoose(row, filter) ==
  LET value == Get(row, filter.column)
  IN CASE filter.operator = "equals" ->
            \/ StrictEq(value, Str(filter.value))
            \/ value.t \in {"num", "inf"} /\ StrictEq(value, StringToNumber(filter.value))
       [] filter.operator = "contains" ->
            IF filter.caseSensitive
            THEN Includes(StringOf(value), filter.value)
            ELSE Includes(ToLowerCase(StringOf(value)), ToLowerCase(filter.value))
       [] filter.operator = "greaterThan" ->
            NumLess(StringToNumber(filter.value), ToNumber(value))
       [] filter.operator = "lessThan" ->
            NumLess(ToNumber(value), StringToNumber(filter.value))
       [] OTHER -> TRUE

\* the switch on filter.operator for one row and one filter
FilterPasses(row, filter) ==
  LET value == Get(row, filter.column)
  IN CASE filter.operator = "equals" -> StrictEq(value, Str(filter.value))
       [] filter.operator = "contains" ->
            IF filter.caseSensitive
            THEN Includes(StringOf(value), filter.value)
            ELSE Includes(ToLowerCase(StringOf(value)), ToLowerCase(filter.value))
       [] filter.operator = "greaterThan" ->
            NumLess(StringToNumber(filter.value), ToNumber(value))
       [] filter.operator = "lessThan" ->
            NumLess(ToNumber(value), StringToNumber(filter.value))
       [] OTHER -> TRUE

\* PassesAll with some() in place of every()
PassesSome(row, filters) == \E i \in 1..Len(filters) : FilterPasses(row, filters[i])

\* activePreset.filters.every(...)
PassesAll(row, filters) == \A i \in 1..Len(filters) : FilterPasses(row, filters[i])

ApplyFilters(rows, filters) ==
  IF Len(filters) > 0 THEN SelectSeq(rows, LAMBDA row : PassesAll(row, filters)) ELSE rows

-----------------------------------------------------------------------------
(* Template Mapper.  A template is [id, columns]; a column is
   [name, constant] with constant a string value or Null.  A template mapping
   is [isNull, templateId, columnMappings]; a column mapping is a string
   value or Null. *)

ConstPrefix == <<"C", "O", "N", "S", "T", ":">>

\* mapping && mapping.startsWith && mapping.startsWith('CONST:')
IsConstMapping(mapping) ==
  /\ mapping.t = "str"
  /\ mapping.s # <<>>
  /\ Len(mapping.s) >= Len(ConstPrefix)
  /\ SubSeq(mapping.s, 1, Len(ConstPrefix)) = ConstPrefix

\* TemplateCell in which a mapping of the column is consulted before the
\* constant of the template file
TemplateCellMappingFirst(column, mapping, processedRow) ==
  IF IsConstMapping(mapping)
  THEN Str(SubSeq(mapping.s, Len(ConstPrefix) + 1, Len(mapping.s)))
  ELSE IF Truthy(mapping) /\ Truthy(Get(processedRow, StringOf(mapping)))
  THEN Get(processedRow, StringOf(mapping))
  ELSE IF column.constant # Null THEN column.constant
  ELSE Str(<<>>)

\* the value of one template column in one template row
TemplateCell(column, mapping, processedRow) ==
  IF column.constant # Null THEN column.constant
  ELSE IF IsConstMapping(mapping)
  THEN Str(SubSeq(mapping.s, Len(ConstPrefix) + 1, Len(mapping.s)))
  ELSE IF Truthy(mapping) /\ Truthy(Get(processedRow, StringOf(mapping)))
  THEN Get(processedRow, StringOf(mapping))
  ELSE Str(<<>>)

\* selectedTemplate.columns.forEach(...) on the first k columns
RECURSIVE FillTemplateRow(_, _, _, _)
FillTemplateRow(columns, columnMappings, processedRow, k) ==
  IF k = 0 THEN EmptyRow
  ELSE Put(FillTemplateRow(columns, columnMappings, processedRow, k - 1),
           columns[k].name,
           TemplateCell(columns[k], Get(columnMappings, columns[k].name), processedRow))

\* templates.find((t) => t.id === id), 0 for undefined
FindTemplate(tpls, id) == FirstIndex(tpls, LAMBDA tp : tp.id = id)

FillTemplate(transformedData, templateMapping, tpls) ==
  IF ~templateMapping.isNull /\ templateMapping.templateId # ""
  THEN LET k == FindTemplate(tpls, templateMapping.templateId)
       IN IF k # 0
          THEN [i \in 1..Len(transformedData) |->
                  FillTemplateRow(tpls[k].columns, templateMapping.columnMappings,
                                  transformedData[i], Len(tpls[k].columns))]
          ELSE <<>>
  ELSE <<>>

-----------------------------------------------------------------------------
(* updatePreview: one run of the pipeline over the current inputs *)

\* headers: placeholderHeaders, or firstFile.rawData[headerRow], which is
\* undefined (defined = FALSE) when the first file is that short
Headers(files, preset, usePlaceholder, placeholders) ==
  IF usePlaceholder THEN [defined |-> TRUE, cells |-> placeholders]
  ELSE IF preset.headerRow + 1 <= Len(files[1].rawData)
  THEN [defined |-> TRUE, cells |-> files[1].rawData[preset.headerRow + 1]]
  ELSE [defined |-> FALSE, cells |-> <<>>]

RECURSIVE SumErrors(_)
SumErrors(results) ==
  IF results = <<>> THEN 0 ELSE Head(results).errors + SumErrors(Tail(results))

\* column selection on every assembled row: what setConfiguredData publishes
Configure(allDataWithHeaders, headers, preset) ==
  [i \in 1..Len(allDataWithHeaders) |-> SelectColumns(allDataWithHeaders[i], headers, preset)]

\* transformedData with the error count of each row
TransformAll(filtered, transformations, sheets) ==
  [i \in 1..Len(filtered) |-> TransformRow(filtered[i], transformations, filtered, sheets)]

ResultRows(results) == [i \in 1..Len(results) |-> results[i].row]

\* what a run that reaches the end of the try block publishes
Outcome(configured, filtered, results, templateMapping, tpls) ==
  [threw |-> FALSE, partial |-> FALSE, configured |-> configured, filtered |-> filtered,
   processed |-> ResultRows(results),
   template |-> FillTemplate(ResultRows(results), templateMapping, tpls),
   errors |-> SumErrors(results)]

\* transform.sourceColumns.length and transform.sourceColumns.map raise a
\* TypeError on a transformation without sourceColumns, as an imported preset
\* may hold; the xlookup case reads sourceColumns only after the other three
RaisesTypeError(transform) ==
  /\ "sourceColumns" \notin DOMAIN transform
  /\ \/ transform.type \in ArithmeticTypes
     \/ transform.type = "concat"
     \/ /\ transform.type = "xlookup"
        /\ transform.lookupSheet # ""
        /\ transform.lookupColumn # <<>>
        /\ transform.returnColumn # <<>>

\* the steps the first row passes before one raises: all of them when none does
RECURSIVE StepsBeforeThrow(_)
StepsBeforeThrow(transformations) ==
  IF transformations = <<>> THEN <<>>
  ELSE IF RaisesTypeError(Head(transformations)) THEN <<>>
  ELSE <<Head(transformations)>> \o StepsBeforeThrow(Tail(transformations))

\* what a run publishes that throws in the transform step, on its first row:
\* setConfiguredData has been called, setProcessedData and setTemplateData
\* have not, and the formulas that failed before the throw have been counted
Aborted(configured, errors) ==
  [threw |-> TRUE, partial |-> TRUE, configured |-> configured, filtered |-> <<>>,
   processed |-> <<>>, template |-> <<>>, errors |-> errors]

\* the end of the run on the results of the steps before a throw: the run is
\* aborted on its first row when a step raises, and complete otherwise
Settle(configured, filtered, results, preset, tpls) ==
  IF /\ \E i \in 1..Len(preset.transformations) : RaisesTypeError(preset.transformations[i])
     /\ filtered # <<>>
  THEN Aborted(configured, results[1].errors)
  ELSE Outcome(configured, filtered, results, preset.templateMapping, tpls)

\* the transformation steps and the template on the filtered rows
FromFiltered(configured, filtered, preset, sheets, tpls) ==
  Settle(configured, filtered,
         TransformAll(filtered, StepsBeforeThrow(preset.transformations), sheets),
         preset, tpls)

\* the filter step on the configured rows
FromConfigured(configured, preset, sheets, tpls) ==
  FromFiltered(configured, ApplyFilters(configured, preset.filters), preset, sheets, tpls)

Thrown ==
  [threw |-> TRUE, partial |-> FALSE, configured |-> <<>>, filtered |-> <<>>, processed |-> <<>>,
   template |-> <<>>, errors |-> 0]

\* the try block from the assembler on.  It throws when headers.forEach is
\* called on undefined, which happens before anything is published
FromHeaders(h, headerRow, files, preset, sheets, tpls) ==
  IF ~h.defined /\ \E k \in 1..Len(files) : DataRows(files[k].rawData, headerRow) # <<>>
  THEN Thrown
  ELSE FromConfigured(
         Configure(Assemble(files, h.cells, headerRow, preset.includeSourceFileColumn,
                            Len(files)),
                   h.cells, preset),
         preset, sheets, tpls)

\* the body of the try block
RunPipeline(files, preset, sheets, tpls, usePlaceholder, placeholders) ==
  FromHeaders(Headers(files, preset, usePlaceholder, placeholders),
              IF usePlaceholder THEN -1 ELSE preset.headerRow,
              files, preset, sheets, tpls)

-----------------------------------------------------------------------------
(* Missing-Value Auditor: checkForMissingLookupValues (warning banner) and
   getMissingLookupValues (processing panel).  Both replay the preceding
   transformations with a switch that has no xlookup case. *)

\* the switch on prevTransform.type of the replay loop
ReplayTransformation(newRow, prevTransform) ==
  CASE prevTransform.type \in ArithmeticTypes ->
         IF Len(prevTransform.sourceColumns) = 2
         THEN Put(newRow, prevTransform.newColumnName,
                  Arithmetic(prevTransform.type,
                             Get(newRow, prevTransform.sourceColumns[1]),
                             Get(newRow, prevTransform.sourceColumns[2])))
         ELSE newRow
    [] prevTransform.type = "concat" ->
         Put(newRow, prevTransform.newColumnName, Concat(newRow, prevTransform.sourceColumns))
    [] prevTransform.type = "custom" ->
         IF prevTransform.formula.op # "none"
         THEN LET r == EvalFormula(prevTransform.formula, newRow)
              IN Put(newRow, prevTransform.newColumnName, IF r.ok THEN r.v ELSE ErrorValue)
         ELSE newRow
    [] OTHER -> newRow

\* for (let i = 0; i < transformIndex; i++) on one row
RECURSIVE ReplayRow(_, _, _)
ReplayRow(row, transformations, transformIndex) ==
  IF transformIndex = 0 THEN row
  ELSE ReplayTransformation(ReplayRow(row, transformations, transformIndex - 1),
                            transformations[transformIndex])

Replay(configured, transformations, transformIndex) ==
  [i \in 1..Len(configured) |-> ReplayRow(configured[i], transformations, transformIndex)]

\* the condition under which a value of the key column is collected
IsMeaningful(lookupValue) ==
  /\ lookupValue # Undef
  /\ lookupValue # Null
  /\ ~StrictEq(lookupValue, Str(<<>>))
  /\ Trim(StringOf(lookupValue)) # <<>>
  /\ StringOf(lookupValue) # StringOf(ErrorValue)
  /\ StringOf(lookupValue) # StringOf(Undef)
  /\ StringOf(lookupValue) # StringOf(Null)

\* allLookupValues: the Set<string> of trimmed keys
AllLookupValues(replayed, lookupColumn) ==
  {Trim(StringOf(Get(replayed[i], lookupColumn))) :
     i \in {j \in 1..Len(replayed) : IsMeaningful(Get(replayed[j], lookupColumn))}}

\* table.some((r) => ...) with the three comparisons
SomeMatches(table, lookupColumn, lookupValue) ==
  \E i \in 1..Len(table) : LookupMatches(Get(table[i], lookupColumn), Str(lookupValue))

\* found, for one collected key
AuditFound(transform, lookupValue, replayed, sheets) ==
  IF transform.lookupSheet = "main"
  THEN SomeMatches(replayed, transform.lookupColumn, lookupValue)
  ELSE LET k == FindSheet(sheets, transform.lookupSheet)
       IN k # 0 /\ SomeMatches(sheets[k].data, transform.lookupColumn, lookupValue)

\* getMissingLookupValues(transform, transformIndex): the lookupValue of every
\* entry of missingValues
GetMissingLookupValues(transformations, transformIndex, configured, sheets) ==
  LET transform == transformations[transformIndex + 1]
  IN IF \/ transform.type # "xlookup"
        \/ transform.lookupSheet = ""
        \/ transform.lookupColumn = <<>>
        \/ Len(transform.sourceColumns) = 0
     THEN {}
     ELSE LET replayed == Replay(configured, transformations, transformIndex)
              lookupColumn == transform.sourceColumns[1]
          IN {lookupValue \in AllLookupValues(replayed, lookupColumn) :
                /\ ~AuditFound(transform, lookupValue, replayed, sheets)
                /\ \E i \in 1..Len(replayed) :
                     StringOf(Get(replayed[i], lookupColumn)) = lookupValue}

\* activePreset.transformations.findIndex((t) => t.id === id), 0-based
FindIndexById(transformations, id) == FirstIndex(transformations, LAMBDA t : t.id = id) - 1

\* missingCount of checkForMissingLookupValues for the xlookup transformation
\* found at position pos (0-based); 0 also stands for "not listed"
MissingCount(transformations, pos, configured, sheets) ==
  LET transform == transformations[pos + 1]
      actualIndex == FindIndexById(transformations, transform.id)
  IN IF \/ transform.type # "xlookup"
        \/ Len(configured) = 0
        \/ transform.lookupSheet = ""
        \/ transform.lookupColumn = <<>>
        \/ Len(transform.sourceColumns) = 0
     THEN 0
     ELSE LET replayed == Replay(configured, transformations, actualIndex)
              lookupColumn == transform.sourceColumns[1]
          IN Cardinality({lookupValue \in AllLookupValues(replayed, lookupColumn) :
                            ~AuditFound(transform, lookupValue, replayed, sheets)})

-----------------------------------------------------------------------------
(* Bounds and the finite sets the inputs are drawn from *)

\* data rows per uploaded file
MaxRows == 2

\* filters in the active preset
MaxFilters == 2

\* transformations in the active preset
MaxTransformations == 2

\* support sheets and templates held at a time
MaxSheets == 1

MaxTemplates == 1

\* saved presets
MaxPresets == 1

\* the header row of every uploaded main file
MainHeader == <<Str(<<"K">>), Str(<<"V">>)>>

\* data rows of the delimited-text files (Papa.parse: every cell a string),
\* one row shorter than the header
CsvRowPool ==
  { <<Str(<<"a">>), Str(<<"5">>)>>,
    <<Str(<<" ", "A">>), Str(<<"0">>)>>,
    <<Str(<<"b">>)>> }

\* data rows of the workbook files (XLSX.utils.sheet_to_json with header: 1:
\* numeric cells arrive as numbers)
XlsxRowPool ==
  { <<Str(<<"a">>), Str(<<"0">>)>>,
    <<Str(<<" ", "A">>), Num(0)>> }

RECURSIVE SeqsUpTo(_, _)
SeqsUpTo(S, n) ==
  IF n = 0 THEN {<<>>}
  ELSE LET shorter == SeqsUpTo(S, n - 1)
       IN shorter \cup {Append(q, x) : q \in {r \in shorter : Len(r) = n - 1}, x \in S}

\* the uploads: one file, the header row and 1..MaxRows data rows
Uploads(rowPool) ==
  { <<[name |-> <<"f">>, rawData |-> <<MainHeader>> \o rows]>> :
      rows \in SeqsUpTo(rowPool, MaxRows) \ {<<>>} }

SheetRow(l, r) == (<<"L">> :> l) @@ (<<"R">> :> r)

\* the data of the uploaded support sheets, columns L and R: a row that
\* matches "a" only after trimming and case folding ahead of the row that
\* equals it, that exact row alone, and a key with a trailing blank
SheetDataPool ==
  { <<SheetRow(Str(<<" ", "A">>), Str(<<"x">>)), SheetRow(Str(<<"a">>), Str(<<"y">>))>>,
    <<SheetRow(Str(<<"a">>), Str(<<"y">>))>>,
    <<SheetRow(Str(<<"b", " ">>), Str(<<"z">>))>> }

\* the data of the support sheets read by XLSX.read, columns L and R, one
\* row each: the R cell of key "a" holds the error #NULL!, which
\* sheet_to_json gives as null, or the number 0; a key with a trailing blank
WorkbookSheetPool ==
  { <<SheetRow(Str(<<"a">>), Null)>>,
    <<SheetRow(Str(<<"a">>), Num(0))>>,
    <<SheetRow(Str(<<"b", " ">>), Str(<<"z">>))>> }

SheetIds == {"s1", "s2"}

NoFormula == [op |-> "none", a |-> <<>>, b |-> <<>>]

Transformation(id, type, newColumnName, sourceColumns) ==
  [id |-> id, type |-> type, newColumnName |-> newColumnName,
   sourceColumns |-> sourceColumns, formula |-> NoFormula,
   lookupSheet |-> "", lookupColumn |-> <<>>, returnColumn |-> <<>>]

Lookup(id, newColumnName, key, lookupSheet, lookupColumn, returnColumn) ==
  [id |-> id, type |-> "xlookup", newColumnName |-> newColumnName,
   sourceColumns |-> <<key>>, formula |-> NoFormula,
   lookupSheet |-> lookupSheet, lookupColumn |-> lookupColumn,
   returnColumn |-> returnColumn]

Custom(id, newColumnName, op, a, b) ==
  [id |-> id, type |-> "custom", newColumnName |-> newColumnName,
   sourceColumns |-> <<>>, formula |-> [op |-> op, a |-> a, b |-> b],
   lookupSheet |-> "", lookupColumn |-> <<>>, returnColumn |-> <<>>]

\* arithmetic steps: one overwriting an original column, one of the wrong
\* arity, one reading the column it is about to write
ArithmeticPool ==
  { Transformation("a1", "add", <<"V">>, << <<"V">>, <<"V">> >>),
    Transformation("a2", "multiply", <<"T">>, << <<"V">>, <<"V">> >>),
    Transformation("a3", "subtract", <<"T">>, << <<"V">> >>),
    Transformation("a4", "divide", <<"T">>, << <<"T">>, <<"V">> >>) }

\* an arithmetic step whose new column is named "2V"
NumberedPool ==
  { Transformation("a5", "add", <<"2", "V">>, << <<"V">>, <<"V">> >>) }

ConcatPool ==
  { Transformation("c1", "concat", <<"K">>, << <<"K">>, <<"K">> >>),
    Transformation("c2", "concat", <<"U">>, << <<"K">>, <<"T">> >>) }

MainLookupPool ==
  { Lookup("m1", <<"T">>, <<"K">>, "main", <<"K">>, <<"V">>),
    Lookup("m2", <<"T">>, <<"V">>, "main", <<"V">>, <<"K">>) }

\* lookups in a support sheet; "x2" has no returnColumn yet
SheetLookupPool ==
  { Lookup("x1", <<"T">>, <<"K">>, "s1", <<"L">>, <<"R">>),
    Lookup("x2", <<"T">>, <<"K">>, "s1", <<"L">>, <<>>) }

\* formulas: V * V, the undefined Z, K + V, a text that does not parse
CustomPool ==
  { Custom("f1", <<"T">>, "mul", <<"V">>, <<"V">>),
    Custom("f2", <<"T">>, "ref", <<"Z">>, <<>>),
    Custom("f3", <<"T">>, "add", <<"K">>, <<"V">>),
    Custom("f4", <<"T">>, "syntax", <<>>, <<>>) }

\* the formula V + V
SumPool ==
  { Custom("f5", <<"T">>, "add", <<"V">>, <<"V">>) }

Filter(id, column, operator, value, caseSensitive) ==
  [id |-> id, column |-> column, operator |-> operator, value |-> value,
   caseSensitive |-> caseSensitive]

EqualsFilterPool == { Filter("e1", <<"V">>, "equals", <<"0">>, FALSE) }

ContainsFilterPool == { Filter("k1", <<"K">>, "contains", <<"a">>, FALSE) }

\* "g2" is a filter whose value is still the "" addFilter gave it
CompareFilterPool ==
  { Filter("g1", <<"V">>, "greaterThan", <<"-", "1">>, FALSE),
    Filter("l1", <<"K">>, "lessThan", <<"9">>, FALSE),
    Filter("g2", <<"V">>, "greaterThan", <<>>, FALSE) }

TemplateIds == {"t1", "t2"}

cCur == <<"C", "u", "r">>

cAmt == <<"A", "m", "t">>

TemplateColumn(name, constant) == [name |-> name, constant |-> constant]

\* the columns of the uploaded templates: Cur with or without a file
\* constant, Amt always mappable
TemplateColumnsPool ==
  { <<TemplateColumn(cCur, Str(<<"U", "S", "D">>)), TemplateColumn(cAmt, Null)>>,
    <<TemplateColumn(cCur, Null), TemplateColumn(cAmt, Null)>> }

\* the values the mapping editor hands to onColumnMappingChange
MappingValues == {Null, Str(<<"V">>), Str(ConstPrefix \o <<"E", "U", "R">>)}

PresetIds == {"p1", "p2"}


-----------------------------------------------------------------------------
(* State *)

VARIABLES
  inputFiles,           \* InputFile[]: [name, rawData]
  activePreset,         \* the active Preset
  presets,              \* the saved presets
  supportSheets,        \* SupportSheet[]: [id, data]
  templates,            \* Template[]: [id, columns]
  usePlaceholderHeader, \* placeholder header mode
  placeholderHeaders,   \* the generated header names
  validationError,      \* TRUE when validationError is not null
  configuredData,       \* published by setConfiguredData
  filteredData,         \* the local filteredData of the last complete run
  processedData,        \* published by setProcessedData
  templateData,         \* published by setTemplateData
  formulaErrorCount,    \* published by setFormulaErrorCount
  notification,         \* the notification of the preset manager
  savedFile,            \* the document last written by saveAs
  readerText,           \* the document the FileReader of an import is reading
  storedPresets,        \* the localStorage item "spreadsheetPresets"
  liveTimers,           \* the intervals set by setInterval and not cleared yet
  previewTimerRef       \* previewTimerRef.current: "null", or the last interval,
                        \* "live" or "cleared"

vars == <<inputFiles, activePreset, presets, supportSheets, templates,
          usePlaceholderHeader, placeholderHeaders, validationError,
          configuredData, filteredData, processedData, templateData,
          formulaErrorCount, notification, savedFile, readerText, storedPresets,
          liveTimers, previewTimerRef>>

\* the periodic refresh timer
timer == <<liveTimers, previewTimerRef>>

\* the state of the preset manager's import and export, and the stored presets
interchange == <<notification, savedFile, readerText, storedPresets>>

published == <<configuredData, filteredData, processedData, templateData, formulaErrorCount>>

NoTemplateMapping == [isNull |-> TRUE, templateId |-> "", columnMappings |-> EmptyRow]

\* no document: nothing exported yet, no import under way
NoDocument == [kind |-> "none", entries |-> <<>>]

NoNotification == [type |-> "none", message |-> ""]

DefaultPreset ==
  [id |-> "default", name |-> "Default Preset", headerRow |-> 0, selectedColumns |-> <<>>, filters |-> <<>>,
   transformations |-> <<>>, includeSourceFileColumn |-> TRUE,
   templateMapping |-> NoTemplateMapping]

Init ==
  /\ inputFiles = <<>>
  /\ activePreset = DefaultPreset
  /\ presets = <<>>
  /\ supportSheets = <<>>
  /\ templates = <<>>
  /\ usePlaceholderHeader = FALSE
  /\ placeholderHeaders = <<>>
  /\ validationError = FALSE
  /\ configuredData = <<>>
  /\ filteredData = <<>>
  /\ processedData = <<>>
  /\ templateData = <<>>
  /\ formulaErrorCount = 0
  /\ notification = NoNotification
  /\ savedFile = NoDocument
  /\ readerText = NoDocument
  /\ storedPresets = NoDocument
  /\ liveTimers = 0
  /\ previewTimerRef = "null"

-----------------------------------------------------------------------------
(* Effects that run after every state change *)

\* the validation effect: the new value of validationError
Validate(files, headerRow, previous) ==
  IF Len(files) <= 1 THEN FALSE
  ELSE IF \E k \in 1..Len(files) : Len(files[k].rawData) = 0 THEN previous
  ELSE LET count(k) == IF Len(files[k].rawData) <= headerRow THEN 0
                       ELSE Len(files[k].rawData[headerRow + 1])
       IN \E k \in 1..Len(files) : count(k) # count(1)

\* rawData.reduce((max, row) => Math.max(max, row.length), 0)
RECURSIVE MaxCols(_)
MaxCols(rawData) ==
  IF rawData = <<>> THEN 0
  ELSE LET m == MaxCols(Tail(rawData))
       IN IF Len(Head(rawData)) > m THEN Len(Head(rawData)) ELSE m

\* Array.from({ length: maxCols }, (_, i) => `Column ${i + 1}`)
PlaceholderNames(rawData) ==
  [i \in 1..MaxCols(rawData) |-> Str(<<"C", "o", "l", "u", "m", "n", " ">> \o NatDigits(i))]

\* the columns effect: the length of newColumns, the placeholder names of
\* the widest row of the first file or the header row of the first file
ColumnCount(files, headerRow, usePlaceholder) ==
  IF Len(files) = 0 THEN 0
  ELSE IF usePlaceholder THEN MaxCols(files[1].rawData)
  ELSE IF Len(files[1].rawData) > headerRow
  THEN Len(files[1].rawData[headerRow + 1])
  ELSE 0

\* newColumns.map((_, idx) => idx)
Indices(n) == [i \in 1..n |-> i - 1]

\* the columns effect: selectedColumns after inputFiles or headerRow changed
AllColumnIndices(files, headerRow) ==
  Indices(ColumnCount(files, headerRow, usePlaceholderHeader))

\* the setters of a run whose error counter starts from the count of the run
\* before
PublishAccumulating(run) ==
  IF run.threw
  THEN UNCHANGED published
  ELSE /\ configuredData' = run.configured
       /\ filteredData' = run.filtered
       /\ processedData' = run.processed
       /\ templateData' = run.template
       /\ formulaErrorCount' = formulaErrorCount + run.errors

\* the setters of one run: a run that throws has reset the error counter and
\* called the setters it reached before the throw
Publish(run) ==
  IF run.threw
  THEN /\ formulaErrorCount' = run.errors
       /\ configuredData' = IF run.partial THEN run.configured ELSE configuredData
       /\ UNCHANGED <<filteredData, processedData, templateData>>
  ELSE /\ configuredData' = run.configured
       /\ filteredData' = run.filtered
       /\ processedData' = run.processed
       /\ templateData' = run.template
       /\ formulaErrorCount' = run.errors

\* the preview effect calling updatePreview with the new state: what the run
\* publishes.  The run returns early without inputs or under a validation
\* error; a run that throws has only reset the error counter.
UpdatePreviewWith(files, preset, sheets, tpls, error, usePlaceholder, placeholders) ==
  IF Len(files) = 0 \/ Len(files[1].rawData) = 0 \/ error
  THEN UNCHANGED published
  ELSE Publish(RunPipeline(files, preset, sheets, tpls, usePlaceholder, placeholders))

\* the timer effect without its cleanup: the interval of the render before
\* stays live
TimerEffectOverlapping(files, error) ==
  IF Len(files) > 0 /\ ~error
  THEN /\ liveTimers' = liveTimers + 1
       /\ previewTimerRef' = "live"
  ELSE UNCHANGED timer

\* the timer effect of the render that holds files and error: the cleanup of
\* the effect of the render before clears previewTimerRef.current, then the
\* effect sets a new interval when there are inputs and no validation error
TimerEffect(files, error) ==
  LET cleaned == IF previewTimerRef = "live" THEN liveTimers - 1 ELSE liveTimers
  IN IF Len(files) > 0 /\ ~error
     THEN /\ liveTimers' = cleaned + 1
          /\ previewTimerRef' = "live"
     ELSE /\ liveTimers' = cleaned
          /\ previewTimerRef' = IF previewTimerRef = "live" THEN "cleared"
                                ELSE previewTimerRef

\* the preview and timer effects of a render that leaves the placeholder
\* state as it is: updatePreview, and the interval set anew
UpdatePreview(files, preset, sheets, tpls, error) ==
  /\ UpdatePreviewWith(files, preset, sheets, tpls, error,
                       usePlaceholderHeader, placeholderHeaders)
  /\ TimerEffect(files, error)

\* setActivePreset(preset) followed by the effects
SetActivePreset(preset) ==
  /\ activePreset' = preset
  /\ UpdatePreview(inputFiles, preset, supportSheets, templates, validationError)

-----------------------------------------------------------------------------
(* Handlers.  Every action is the handler followed by the effects its state
   change triggers. *)

\* handleFilesUpload(files) with a non-empty list, then the validation, the
\* columns and the preview effects.  The handler begins with
\* setValidationError(null); the render that follows setInputFiles therefore
\* holds no validation error, and the preview effect of that render calls
\* updatePreview with it before the error the validation effect sets in the
\* same commit is rendered.  That run holds the selectedColumns the handler
\* set (firstFileHeaders) and the placeholderHeaders of the previous render;
\* without an error, the run after the columns effect follows it, holding the
\* selectedColumns and the placeholderHeaders the effect set.
HandleFilesUpload(files) ==
    LET firstFileHeaders == ColumnCount(files, 0, usePlaceholderHeader)
        handled == [activePreset EXCEPT !.selectedColumns = Indices(firstFileHeaders)]
        preset == [activePreset EXCEPT
                     !.selectedColumns = AllColumnIndices(files, activePreset.headerRow)]
        newColumns == IF usePlaceholderHeader THEN PlaceholderNames(files[1].rawData)
                      ELSE <<>>
        error == Validate(files, activePreset.headerRow, FALSE)
    IN /\ inputFiles' = files
       /\ validationError' = error
       /\ placeholderHeaders' = newColumns
       /\ activePreset' = preset
       /\ IF error
          THEN UpdatePreviewWith(files, handled, supportSheets, templates, FALSE,
                                 usePlaceholderHeader, placeholderHeaders)
          ELSE UpdatePreviewWith(files, preset, supportSheets, templates, FALSE,
                                 usePlaceholderHeader, newColumns)
       /\ TimerEffect(files, error)
       /\ UNCHANGED <<presets, supportSheets, templates, usePlaceholderHeader, interchange>>

\* an upload read by Papa.parse (.csv, .txt)
UploadCsv ==
  \E files \in Uploads(CsvRowPool) :
    /\ Len(files) > 0
    /\ HandleFilesUpload(files)

\* an upload read by XLSX.read (.xlsx, .xls)
UploadXlsx ==
  \E files \in Uploads(XlsxRowPool) :
    /\ Len(files) > 0
    /\ HandleFilesUpload(files)

\* a second file uploaded along with the first: one with the header of the
\* first, one with a single column
SecondFiles ==
  { [name |-> <<"g">>, rawData |-> <<MainHeader, <<Str(<<"c">>), Str(<<"1">>)>> >>],
    [name |-> <<"g">>, rawData |-> << <<Str(<<"K">>)>>, <<Str(<<"c">>)>> >>] }

\* an upload of two delimited-text files
UploadSeveral ==
  \E files \in Uploads(CsvRowPool), second \in SecondFiles :
    /\ Len(files) = 1
    /\ HandleFilesUpload(Append(files, second))

\* onUsePlaceholderHeaderChange = setUsePlaceholderHeader, then the columns
\* effect (placeholderHeaders and selectedColumns of the new mode) and the
\* preview effect of the render that holds what the columns effect set
HandleUsePlaceholderHeaderChange ==
  LET checked == ~usePlaceholderHeader
      newColumns == IF checked /\ Len(inputFiles) > 0
                    THEN PlaceholderNames(inputFiles[1].rawData) ELSE <<>>
      preset == [activePreset EXCEPT
                   !.selectedColumns =
                     Indices(ColumnCount(inputFiles, activePreset.headerRow, checked))]
  IN /\ usePlaceholderHeader' = checked
     /\ placeholderHeaders' = newColumns
     /\ activePreset' = preset
     /\ UpdatePreviewWith(inputFiles, preset, supportSheets, templates, validationError,
                          checked, newColumns)
     /\ TimerEffect(inputFiles, validationError)
     /\ UNCHANGED <<inputFiles, presets, supportSheets, templates, validationError,
                    interchange>>

Ids(seq) == {seq[i].id : i \in 1..Len(seq)}

RemoveAt(seq, i) == SubSeq(seq, 1, i - 1) \o SubSeq(seq, i + 1, Len(seq))

Frame == <<inputFiles, presets, supportSheets, templates, usePlaceholderHeader,
           placeholderHeaders, validationError, interchange>>

\* onFiltersChange([...filters, newFilter]) and the edits that complete it
AddFilter(f) ==
  /\ Len(activePreset.filters) < MaxFilters
  /\ f.id \notin Ids(activePreset.filters)
  /\ SetActivePreset([activePreset EXCEPT !.filters = Append(@, f)])
  /\ UNCHANGED Frame

AddEqualsFilter ==
  \E f \in EqualsFilterPool :
    /\ f.operator = "equals"
    /\ AddFilter(f)

AddContainsFilter ==
  \E f \in ContainsFilterPool :
    /\ f.operator = "contains"
    /\ AddFilter(f)

AddCompareFilter ==
  \E f \in CompareFilterPool :
    /\ f.operator \in {"greaterThan", "lessThan"}
    /\ AddFilter(f)

\* onFiltersChange(filters.filter((filter) => filter.id !== id))
RemoveFilter ==
  \E i \in 1..Len(activePreset.filters) :
    /\ SetActivePreset([activePreset EXCEPT !.filters = RemoveAt(@, i)])
    /\ UNCHANGED Frame

\* onTransformationsChange([...transformations, t]) with t completed by
\* updateTransformation
AddTransformation(t) ==
  /\ Len(activePreset.transformations) < MaxTransformations
  /\ t.id \notin Ids(activePreset.transformations)
  /\ SetActivePreset([activePreset EXCEPT !.transformations = Append(@, t)])
  /\ UNCHANGED Frame

AddArithmetic ==
  \E t \in ArithmeticPool :
    /\ t.type \in ArithmeticTypes
    /\ AddTransformation(t)

AddConcat ==
  \E t \in ConcatPool :
    /\ t.type = "concat"
    /\ AddTransformation(t)

AddMainLookup ==
  \E t \in MainLookupPool :
    /\ t.type = "xlookup" /\ t.lookupSheet = "main"
    /\ AddTransformation(t)

AddSheetLookup ==
  \E t \in SheetLookupPool :
    /\ t.type = "xlookup" /\ t.lookupSheet # "main"
    /\ AddTransformation(t)

AddNumbered ==
  \E t \in NumberedPool :
    /\ Len(t.sourceColumns) = 2
    /\ AddTransformation(t)

AddCustom ==
  \E t \in CustomPool :
    /\ t.type = "custom"
    /\ AddTransformation(t)

AddSum ==
  \E t \in SumPool :
    /\ t.formula.op = "add"
    /\ AddTransformation(t)

\* onTransformationsChange(transformations.filter((t) => t.id !== id))
RemoveTransformation ==
  \E i \in 1..Len(activePreset.transformations) :
    /\ SetActivePreset([activePreset EXCEPT !.transformations = RemoveAt(@, i)])
    /\ UNCHANGED Frame

\* one tick of the live interval: updatePreview() of the render that set it
TimerTick ==
  /\ liveTimers > 0
  /\ UpdatePreviewWith(inputFiles, activePreset, supportSheets, templates, validationError,
                       usePlaceholderHeader, placeholderHeaders)
  /\ UNCHANGED <<inputFiles, activePreset, presets, supportSheets, templates,
                 usePlaceholderHeader, placeholderHeaders, validationError, interchange,
                 timer>>

\* handleReset, then the columns effect on the empty input list and the
\* cleanup of the timer effect; clearInterval leaves previewTimerRef.current
\* as it is, and the local rows and the error counter of the last run stay
HandleReset ==
  /\ inputFiles' = <<>>
  /\ processedData' = <<>>
  /\ configuredData' = <<>>
  /\ templateData' = <<>>
  /\ validationError' = FALSE
  /\ activePreset' = [activePreset EXCEPT !.selectedColumns = <<>>]
  /\ placeholderHeaders' = <<>>
  /\ TimerEffect(<<>>, FALSE)
  /\ UNCHANGED <<presets, supportSheets, templates, usePlaceholderHeader, filteredData,
                 formulaErrorCount, interchange>>

\* handleToggleSourceFileColumn(value)
HandleToggleSourceFileColumn ==
  /\ SetActivePreset([activePreset EXCEPT !.includeSourceFileColumn = ~@])
  /\ UNCHANGED Frame

\* handleAddSupportSheet(file, name): a sheet with a fresh id
HandleAddSupportSheet ==
  \E id \in SheetIds, data \in SheetDataPool :
    /\ Len(supportSheets) < MaxSheets
    /\ id \notin Ids(supportSheets)
    /\ supportSheets' = Append(supportSheets, [id |-> id, data |-> data])
    /\ UpdatePreview(inputFiles, activePreset, supportSheets', templates, validationError)
    /\ UNCHANGED <<inputFiles, activePreset, presets, templates, usePlaceholderHeader,
                   placeholderHeaders, validationError, interchange>>

\* handleAddSupportSheet(file, name) with a workbook file
HandleAddWorkbookSheet ==
  \E id \in SheetIds, data \in WorkbookSheetPool :
    /\ Len(supportSheets) < MaxSheets
    /\ id \notin Ids(supportSheets)
    /\ supportSheets' = Append(supportSheets, [id |-> id, data |-> data])
    /\ UpdatePreview(inputFiles, activePreset, supportSheets', templates, validationError)
    /\ UNCHANGED <<inputFiles, activePreset, presets, templates, usePlaceholderHeader,
                   placeholderHeaders, validationError, interchange>>

\* handleDeleteSupportSheet(id)
HandleDeleteSupportSheet ==
  \E i \in 1..Len(supportSheets) :
    /\ supportSheets' = RemoveAt(supportSheets, i)
    /\ UpdatePreview(inputFiles, activePreset, supportSheets', templates, validationError)
    /\ UNCHANGED <<inputFiles, activePreset, presets, templates, usePlaceholderHeader,
                   placeholderHeaders, validationError, interchange>>

\* handleAddTemplate(file, name, useSecondRowAsConstants): a template with a
\* fresh id
HandleAddTemplate ==
  \E id \in TemplateIds, columns \in TemplateColumnsPool :
    /\ Len(templates) < MaxTemplates
    /\ id \notin Ids(templates)
    /\ templates' = Append(templates, [id |-> id, columns |-> columns])
    /\ UpdatePreview(inputFiles, activePreset, supportSheets, templates', validationError)
    /\ UNCHANGED <<inputFiles, activePreset, presets, supportSheets, usePlaceholderHeader,
                   placeholderHeaders, validationError, interchange>>

\* handleDeleteTemplate(id)
HandleDeleteTemplate ==
  \E i \in 1..Len(templates) :
    LET preset == IF /\ ~activePreset.templateMapping.isNull
                     /\ activePreset.templateMapping.templateId = templates[i].id
                  THEN [activePreset EXCEPT !.templateMapping = NoTemplateMapping]
                  ELSE activePreset
    IN /\ templates' = RemoveAt(templates, i)
       /\ activePreset' = preset
       /\ UpdatePreview(inputFiles, preset, supportSheets, templates', validationError)
       /\ UNCHANGED <<inputFiles, presets, supportSheets, usePlaceholderHeader,
                      placeholderHeaders, validationError, interchange>>

\* handleUpdateTemplateColumn(templateId, columnName, { constant })
HandleUpdateTemplateColumn ==
  \E i \in 1..Len(templates), columnName \in {cCur, cAmt},
     constant \in {Null, Str(<<"U", "S", "D">>)} :
    LET updatedColumns ==
          [k \in 1..Len(templates[i].columns) |->
             IF templates[i].columns[k].name = columnName
             THEN [templates[i].columns[k] EXCEPT !.constant = constant]
             ELSE templates[i].columns[k]]
    IN /\ templates' = [templates EXCEPT ![i].columns = updatedColumns]
       /\ templates' # templates
       /\ UpdatePreview(inputFiles, activePreset, supportSheets, templates', validationError)
       /\ UNCHANGED <<inputFiles, activePreset, presets, supportSheets,
                      usePlaceholderHeader, placeholderHeaders, validationError, interchange>>

\* columnMappings of handleTemplateSelect: null for every column without a
\* file constant
RECURSIVE InitialMappings(_, _)
InitialMappings(columns, k) ==
  IF k = 0 THEN EmptyRow
  ELSE IF columns[k].constant = Null
  THEN Put(InitialMappings(columns, k - 1), columns[k].name, Null)
  ELSE InitialMappings(columns, k - 1)

\* handleTemplateSelect(templateId), "" standing for null
HandleTemplateSelect ==
  \E templateId \in TemplateIds \cup {""} :
    /\ IF templateId = ""
       THEN SetActivePreset([activePreset EXCEPT !.templateMapping = NoTemplateMapping])
       ELSE LET k == FindTemplate(templates, templateId)
            IN /\ k # 0
               /\ SetActivePreset(
                    [activePreset EXCEPT !.templateMapping =
                       [isNull |-> FALSE, templateId |-> templateId,
                        columnMappings |->
                          InitialMappings(templates[k].columns, Len(templates[k].columns))]])
    /\ activePreset' # activePreset
    /\ UNCHANGED Frame

\* handleColumnMappingChange(templateColumn, value)
HandleColumnMappingChange ==
  \E templateColumn \in {cCur, cAmt}, value \in MappingValues :
    /\ ~activePreset.templateMapping.isNull
    /\ SetActivePreset([activePreset EXCEPT !.templateMapping.columnMappings =
                          Put(@, templateColumn, value)])
    /\ activePreset' # activePreset
    /\ UNCHANGED Frame

\* presets.findIndex((p) => p.id === id), 0 for -1
FindPreset(list, id) == FirstIndex(list, LAMBDA p : p.id = id)

\* StringifyObject leaving out the properties whose value is null as well
StringifyObjectDefined(obj) ==
  [k \in {c \in DOMAIN obj : obj[c] \notin {Undef, Null}} |->
     IF obj[k].t \in {"nan", "inf"} THEN Null ELSE obj[k]]

\* JSON.stringify of the properties of an object: a property whose value is
\* undefined is left out, NaN and the infinities are written as null
StringifyObject(obj) ==
  [k \in {c \in DOMAIN obj : obj[c] # Undef} |->
     IF obj[k].t \in {"nan", "inf"} THEN Null ELSE obj[k]]

\* JSON.stringify(presets, null, 2), as the document JSON.parse reads back
Stringify(list) ==
  [kind |-> "array",
   entries |-> [i \in 1..Len(list) |->
                  [list[i] EXCEPT !.templateMapping.columnMappings = StringifyObject(@)]]]

\* the effect on [presets]: localStorage.setItem("spreadsheetPresets",
\* JSON.stringify(presets)) if presets.length > 0
SavePresetsEffect ==
  storedPresets' = IF Len(presets') > 0 THEN Stringify(presets') ELSE storedPresets

\* handleSavePreset(preset): handleSaveNewPreset gives the active preset a
\* fresh id and the name typed in the dialog, handleSaveExistingPreset saves
\* it under its own
HandleSavePreset ==
  \E id \in PresetIds \cup {activePreset.id} :
    LET preset == IF id = activePreset.id THEN activePreset
                  ELSE [activePreset EXCEPT !.id = id, !.name = "Saved"]
        existingIndex == FindPreset(presets, id)
    IN /\ id \in PresetIds => id = activePreset.id \/ existingIndex = 0
       /\ IF existingIndex # 0
          THEN presets' = [presets EXCEPT ![existingIndex] = preset]
          ELSE /\ Len(presets) < MaxPresets
               /\ presets' = Append(presets, preset)
       /\ <<presets', preset>> # <<presets, activePreset>>
       /\ SetActivePreset(preset)
       /\ notification' =
            [type |-> "success",
             message |-> IF id = activePreset.id THEN "updated successfully!"
                         ELSE "saved successfully!"]
       /\ SavePresetsEffect
       /\ UNCHANGED <<inputFiles, supportSheets, templates, usePlaceholderHeader,
                      placeholderHeaders, validationError, savedFile, readerText>>

\* setActivePreset(preset) with a preset whose header row may differ from the
\* active one, followed by the effects.  A changed header row triggers the
\* validation effect and the columns effect, which selects every column of
\* the new header row; the run of the render after them, unless a validation
\* error blocks it, publishes over the run of the render before them.
ActivatePreset(preset) ==
  LET changed == preset.headerRow # activePreset.headerRow
      reselected == [preset EXCEPT
                       !.selectedColumns = AllColumnIndices(inputFiles, preset.headerRow)]
      error == Validate(inputFiles, preset.headerRow, validationError)
  IN IF changed
     THEN /\ activePreset' = reselected
          /\ validationError' = error
          /\ IF error
             THEN UpdatePreviewWith(inputFiles, preset, supportSheets, templates,
                                    validationError, usePlaceholderHeader, placeholderHeaders)
             ELSE UpdatePreviewWith(inputFiles, reselected, supportSheets, templates, FALSE,
                                    usePlaceholderHeader, placeholderHeaders)
          /\ TimerEffect(inputFiles, error)
     ELSE /\ SetActivePreset(preset)
          /\ UNCHANGED validationError

\* handleLoadPreset(presets[i].id)
LoadPreset(i) ==
  /\ ActivatePreset(presets[i])
  /\ UNCHANGED <<inputFiles, presets, supportSheets, templates, usePlaceholderHeader,
                 placeholderHeaders, interchange>>

\* handleLoadPreset(presetId)
HandleLoadPreset ==
  \E i \in 1..Len(presets) :
    /\ presets[i].id # ""
    /\ LoadPreset(i)

\* the header rows the user may pick
HeaderRows == {0, 1}

\* onHeaderRowChange(row)
HandleHeaderRowChange ==
  \E row \in HeaderRows :
    /\ row # activePreset.headerRow
    /\ ActivatePreset([activePreset EXCEPT !.headerRow = row])
    /\ UNCHANGED <<inputFiles, presets, supportSheets, templates, usePlaceholderHeader,
                   placeholderHeaders, interchange>>

\* onSelectedColumnsChange(cols) with one column taken out of the selection
HandleSelectedColumnsChange ==
  \E i \in 1..Len(activePreset.selectedColumns) :
    /\ SetActivePreset([activePreset EXCEPT !.selectedColumns = RemoveAt(@, i)])
    /\ UNCHANGED Frame

\* handleDeletePreset(presetId)
HandleDeletePreset ==
  \E i \in 1..Len(presets) :
    /\ presets' = RemoveAt(presets, i)
    /\ SavePresetsEffect
    /\ IF activePreset.id = presets[i].id
       THEN ActivatePreset([DefaultPreset EXCEPT
                              !.selectedColumns =
                                AllColumnIndices(inputFiles, activePreset.headerRow)])
       ELSE UNCHANGED <<activePreset, validationError, published, timer>>
    /\ UNCHANGED <<inputFiles, supportSheets, templates, usePlaceholderHeader,
                   placeholderHeaders, notification, savedFile, readerText>>

\* one preset of the load effect: the stored preset with the two properties
\* added that older versions lack
LoadedPreset(preset) ==
  [k \in DOMAIN preset \cup {"includeSourceFileColumn", "templateMapping"} |->
     IF k \in DOMAIN preset THEN preset[k]
     ELSE IF k = "templateMapping" THEN NoTemplateMapping ELSE TRUE]

\* a reload of the page with no template and no support sheet stored: the
\* state after construction, then the load effect of the presets and the
\* effect on [presets]
Reload ==
  /\ templates = <<>> /\ supportSheets = <<>>
  /\ readerText = NoDocument
  /\ presets' = IF storedPresets = NoDocument THEN <<>>
                ELSE [i \in 1..Len(storedPresets.entries) |->
                        LoadedPreset(storedPresets.entries[i])]
  /\ SavePresetsEffect
  /\ inputFiles' = <<>>
  /\ activePreset' = DefaultPreset
  /\ usePlaceholderHeader' = FALSE
  /\ placeholderHeaders' = <<>>
  /\ validationError' = FALSE
  /\ configuredData' = <<>>
  /\ filteredData' = <<>>
  /\ processedData' = <<>>
  /\ templateData' = <<>>
  /\ formulaErrorCount' = 0
  /\ notification' = NoNotification
  /\ liveTimers' = 0
  /\ previewTimerRef' = "null"
  /\ UNCHANGED <<templates, supportSheets, savedFile, readerText>>

-----------------------------------------------------------------------------
(* Import and export of presets (preset-manager.tsx).  A document is
   [kind, entries]: kind "garbage" is a text JSON.parse rejects, "object" a
   JSON value that is not an array, "array" an array of objects.  An object
   is a record that holds the properties present in it. *)

\* handleExportPresets
HandleExportPresets ==
  /\ IF Len(presets) = 0
     THEN /\ notification' = [type |-> "error", message |-> "No presets to export."]
          /\ UNCHANGED savedFile
     ELSE /\ savedFile' = Stringify(presets)
          /\ notification' = [type |-> "success", message |-> "Presets exported successfully!"]
  /\ UNCHANGED <<inputFiles, activePreset, presets, supportSheets, templates,
                 usePlaceholderHeader, placeholderHeaders, validationError, published, timer,
                 readerText, storedPresets>>

\* the documents a user may pick for import: a corrupt text, a JSON object,
\* the empty array, a preset of an older version with id and name only next
\* to one that holds three more properties, a preset that holds the other
\* three, and entries without name or without id
ImportDocuments ==
  { [kind |-> "garbage", entries |-> <<>>],
    [kind |-> "object", entries |-> <<>>],
    [kind |-> "array", entries |-> <<>>],
    [kind |-> "array",
     entries |-> << [id |-> "p1", name |-> "Old"],
                    [id |-> "p2", name |-> "Part", headerRow |-> 1,
                     filters |-> <<Filter("k1", <<"K">>, "contains", <<"a">>, FALSE)>>,
                     includeSourceFileColumn |-> FALSE] >>],
    [kind |-> "array",
     entries |-> << [id |-> "p1", name |-> "Rest", selectedColumns |-> <<1>>,
                     transformations |->
                       <<Transformation("c1", "concat", <<"K">>, << <<"K">>, <<"K">> >>)>>,
                     templateMapping |->
                       [isNull |-> FALSE, templateId |-> "t1",
                        columnMappings |-> (cAmt :> Str(<<"V">>))]] >>],
    [kind |-> "array", entries |-> << [id |-> "p1"] >>],
    [kind |-> "array",
     entries |-> << [id |-> "p1", name |-> "Old"], [name |-> "Anonymous", headerRow |-> 1] >>] }

\* handleImportPresetsFile up to reader.readAsText(file)
ReadAsText(text) ==
  /\ readerText = NoDocument
  /\ readerText' = text
  /\ UNCHANGED <<inputFiles, activePreset, presets, supportSheets, templates,
                 usePlaceholderHeader, placeholderHeaders, validationError, published, timer,
                 notification, savedFile, storedPresets>>

\* an import of a document from elsewhere
HandleImportPresetsFile ==
  \E text \in ImportDocuments :
    /\ text.kind # "none"
    /\ ReadAsText(text)

\* documents written by hand or by another tool: a preset whose arithmetic
\* step has no sourceColumns, and one whose formula step has none
ForeignDocuments ==
  { [kind |-> "array",
     entries |-> << [id |-> "p1", name |-> "Bare", selectedColumns |-> <<0, 1>>,
                     transformations |->
                       << [id |-> "a9", type |-> "add", newColumnName |-> <<"T">>,
                           formula |-> NoFormula, lookupSheet |-> "",
                           lookupColumn |-> <<>>, returnColumn |-> <<>>] >>] >>],
    [kind |-> "array",
     entries |-> << [id |-> "p1", name |-> "Bare", selectedColumns |-> <<0, 1>>,
                     transformations |->
                       << [id |-> "f9", type |-> "custom", newColumnName |-> <<"T">>,
                           formula |-> NoFormula, lookupSheet |-> "",
                           lookupColumn |-> <<>>, returnColumn |-> <<>>] >>] >>] }

\* an import of such a document
HandleImportForeignFile ==
  \E text \in ForeignDocuments :
    /\ text.kind = "array"
    /\ ReadAsText(text)

\* an import of the document the last export wrote
HandleImportSavedFile ==
  /\ savedFile # NoDocument
  /\ ReadAsText(savedFile)

\* !(!p.id || !p.name)
HasId(p) == "id" \in DOMAIN p /\ p.id # ""

HasIdAndName(p) == "id" \in DOMAIN p /\ p.id # "" /\ "name" \in DOMAIN p /\ p.name # ""

\* preset[property] ?? default
Field(preset, property, default) ==
  IF property \in DOMAIN preset THEN preset[property] ELSE default

\* a preset in which every optional property has its default
DefaultFields(preset) ==
  [id |-> Field(preset, "id", "preset_now"), name |-> Field(preset, "name", "Untitled Preset"),
   headerRow |-> 0, selectedColumns |-> <<>>,
   filters |-> <<>>, transformations |-> <<>>, includeSourceFileColumn |-> TRUE,
   templateMapping |-> NoTemplateMapping]

\* one element of sanitizedPresets
SanitizePreset(preset) ==
  [id |-> Field(preset, "id", "preset_now"),
   name |-> Field(preset, "name", "Untitled Preset"),
   headerRow |-> Field(preset, "headerRow", 0),
   selectedColumns |-> Field(preset, "selectedColumns", <<>>),
   filters |-> Field(preset, "filters", <<>>),
   transformations |-> Field(preset, "transformations", <<>>),
   includeSourceFileColumn |-> Field(preset, "includeSourceFileColumn", TRUE),
   templateMapping |-> Field(preset, "templateMapping", NoTemplateMapping)]

\* handleImportPresets(importedPresets)
HandleImportPresets(importedPresets) ==
  /\ presets' = [i \in 1..Len(importedPresets) |-> SanitizePreset(importedPresets[i])]
  /\ SavePresetsEffect
  /\ IF Len(importedPresets) > 0
     THEN ActivatePreset(SanitizePreset(importedPresets[1]))
     ELSE ActivatePreset([DefaultPreset EXCEPT
                            !.selectedColumns =
                              AllColumnIndices(inputFiles, activePreset.headerRow)])

\* reader.onload of handleImportPresetsFile
ReaderOnLoad ==
  /\ readerText # NoDocument
  /\ readerText' = NoDocument
  /\ IF readerText.kind = "garbage"
     THEN /\ notification' = [type |-> "error",
                              message |-> "Failed to import presets. File might be corrupt."]
          /\ UNCHANGED <<activePreset, presets, validationError, published, timer,
                         storedPresets>>
     ELSE IF \/ readerText.kind # "array"
             \/ \E i \in 1..Len(readerText.entries) : ~HasIdAndName(readerText.entries[i])
     THEN /\ notification' = [type |-> "error", message |-> "Invalid preset file format."]
          /\ UNCHANGED <<activePreset, presets, validationError, published, timer,
                         storedPresets>>
     ELSE /\ HandleImportPresets(readerText.entries)
          /\ notification' = [type |-> "success", message |-> "Presets imported successfully!"]
  /\ UNCHANGED <<inputFiles, supportSheets, templates, usePlaceholderHeader,
                 placeholderHeaders, savedFile>>

\* the timer that clears the notification after 3 seconds
ClearNotification ==
  /\ notification # NoNotification
  /\ notification' = NoNotification
  /\ UNCHANGED <<inputFiles, activePreset, presets, supportSheets, templates,
                 usePlaceholderHeader, placeholderHeaders, validationError, published, timer,
                 savedFile, readerText, storedPresets>>

-----------------------------------------------------------------------------
(* Specifications *)

Next ==
  \/ UploadCsv
  \/ UploadXlsx
  \/ UploadSeveral
  \/ HandleUsePlaceholderHeaderChange
  \/ AddEqualsFilter
  \/ AddContainsFilter
  \/ AddCompareFilter
  \/ RemoveFilter
  \/ AddArithmetic
  \/ AddNumbered
  \/ AddConcat
  \/ AddMainLookup
  \/ AddSheetLookup
  \/ AddCustom
  \/ AddSum
  \/ RemoveTransformation
  \/ HandleToggleSourceFileColumn
  \/ TimerTick
  \/ HandleReset
  \/ HandleAddSupportSheet
  \/ HandleAddWorkbookSheet
  \/ HandleDeleteSupportSheet
  \/ HandleAddTemplate
  \/ HandleDeleteTemplate
  \/ HandleUpdateTemplateColumn
  \/ HandleTemplateSelect
  \/ HandleColumnMappingChange
  \/ HandleSavePreset
  \/ HandleLoadPreset
  \/ HandleHeaderRowChange
  \/ HandleSelectedColumnsChange
  \/ HandleDeletePreset
  \/ Reload
  \/ HandleExportPresets
  \/ HandleImportPresetsFile
  \/ HandleImportForeignFile
  \/ HandleImportSavedFile
  \/ ReaderOnLoad
  \/ ClearNotification

Spec == Init /\ [][Next]_vars

\* uploads and the filter editor
NextFilter ==
  \/ UploadXlsx
  \/ AddEqualsFilter
  \/ AddContainsFilter
  \/ AddCompareFilter
  \/ RemoveFilter
  \/ HandleToggleSourceFileColumn

SpecFilter == Init /\ [][NextFilter]_vars

-----------------------------------------------------------------------------
(* Filter Engine claims *)

Range(seq) == {seq[i] : i \in 1..Len(seq)}

\* C9: the filtered dataset is exactly the subsequence of the configured rows
\* that satisfy every filter of the Filter list, in their original order; with
\* an empty Filter list it equals the configured dataset.
C9_FilterConjunction ==
  /\ filteredData =
       SelectSeq(configuredData,
                 LAMBDA row : \A f \in Range(activePreset.filters) : FilterPasses(row, f))
  /\ activePreset.filters = <<>> => filteredData = configuredData
  /\ Len(processedData) = Len(filteredData)

\* two filters are active and they keep some rows and drop others
C9_Witness ==
  /\ Len(activePreset.filters) = 2
  /\ Len(filteredData) > 0
  /\ Len(filteredData) < Len(configuredData)
  /\ \E f \in Range(activePreset.filters) : \A row \in Range(configuredData) : FilterPasses(row, f)

\* C10: a row passes an equals filter only if its field is identical in type
\* and value to the filter value (a string): no row holding the number 0
\* passes the filter value "0".
C10_EqualsNeverCoerces ==
  \A f \in Range(activePreset.filters) :
    f.operator = "equals" =>
      \A row \in Range(filteredData) :
        /\ f.column \in DOMAIN row
        /\ row[f.column].t = "str"
        /\ row[f.column].s = f.value

\* the configured rows hold the number 0 and the string "0" in the filtered
\* column and only the string row passed
C10_Witness ==
  \E f \in Range(activePreset.filters) :
    /\ f.operator = "equals"
    /\ \E row \in Range(configuredData) : Get(row, f.column) = Num(0)
    /\ \E row \in Range(configuredData) : Get(row, f.column) = Str(<<"0">>)
    /\ f.value = <<"0">>
    /\ Len(filteredData) = 1

-----------------------------------------------------------------------------
(* Lookup Resolver and Auditor claims *)

\* uploads, support sheets and the lookups into them
NextLookup ==
  \/ UploadCsv
  \/ AddSheetLookup
  \/ AddConcat
  \/ RemoveTransformation
  \/ HandleAddSupportSheet
  \/ HandleDeleteSupportSheet

SpecLookup == Init /\ [][NextLookup]_vars

\* uploads, filters and the lookups into the main table
NextSnapshot ==
  \/ UploadCsv
  \/ AddContainsFilter
  \/ RemoveFilter
  \/ AddMainLookup
  \/ AddConcat
  \/ RemoveTransformation

SpecSnapshot == Init /\ [][NextSnapshot]_vars

\* the xlookup at position i (1-based) has its target, both columns and a key
IsCompleteLookup(t) ==
  /\ t.type = "xlookup"
  /\ t.lookupSheet # ""
  /\ t.lookupColumn # <<>>
  /\ t.returnColumn # <<>>
  /\ Len(t.sourceColumns) > 0

\* row r of the live run after its first i transformations
RowAt(r, i) ==
  TransformRow(filteredData[r], SubSeq(activePreset.transformations, 1, i),
               filteredData, supportSheets).row

HasTable(t) ==
  t.lookupSheet = "main" \/ \E k \in 1..Len(supportSheets) : supportSheets[k].id = t.lookupSheet

\* the target table of a lookup in the live run
TargetTable(t) ==
  IF t.lookupSheet = "main" THEN filteredData
  ELSE supportSheets[CHOOSE k \in 1..Len(supportSheets) : supportSheets[k].id = t.lookupSheet].data

Tier1(c, key) == StrictEq(c, key)

Tier2(c, key) == Trim(StringOf(c)) = Trim(StringOf(key))

Tier3(c, key) == ToLowerCase(Trim(StringOf(c))) = ToLowerCase(Trim(StringOf(key)))

\* the first row of the best tier that has a row at all, 0 when no tier has
TieredIndex(table, col, key) ==
  LET first(T(_, _)) == FirstIndex(table, LAMBDA row : T(Get(row, col), key))
  IN IF first(Tier1) # 0 THEN first(Tier1)
     ELSE IF first(Tier2) # 0 THEN first(Tier2)
     ELSE first(Tier3)

\* C1: if some row of the target table equals the key strictly, the value
\* written is the returnColumn of the first strictly-equal row, even after an
\* earlier row that matches only trimmed or case-folded; tier 2 is consulted
\* only when no row matches tier 1 and tier 3 only when none matches tier 2.
C1_TierOrdering ==
  \A i \in 1..Len(activePreset.transformations) :
    LET t == activePreset.transformations[i]
    IN IsCompleteLookup(t) /\ HasTable(t) =>
         \A r \in 1..Len(filteredData) :
           LET key == Get(RowAt(r, i - 1), t.sourceColumns[1])
               j == TieredIndex(TargetTable(t), t.lookupColumn, key)
           IN j # 0 => Get(RowAt(r, i), t.newColumnName) = Get(TargetTable(t)[j], t.returnColumn)

LiveKeys(i) ==
  LET t == activePreset.transformations[i]
  IN {v \in {Get(RowAt(r, i - 1), t.sourceColumns[1]) : r \in 1..Len(filteredData)} :
        IsMeaningful(v)}

\* C3: for every xlookup transformation and every non-empty key of its key
\* column at that step, the auditor reports the key missing iff the engine
\* writes the sentinel Not found: "<key>" for the rows carrying it.
C3_AuditAgreesWithExecution ==
  \A i \in 1..Len(activePreset.transformations) :
    LET t == activePreset.transformations[i]
    IN IsCompleteLookup(t) =>
         \A r \in 1..Len(filteredData) :
           LET key == Get(RowAt(r, i - 1), t.sourceColumns[1])
           IN IsMeaningful(key) =>
                ( Trim(StringOf(key)) \in
                    GetMissingLookupValues(activePreset.transformations, i - 1,
                                           configuredData, supportSheets)
                  <=> Get(RowAt(r, i), t.newColumnName) = NotFound(key) )

\* the distinct keys of step i, as trimmed text, that no row of the target
\* table matches in any tier
UnmatchedKeys(i) ==
  LET t == activePreset.transformations[i]
  IN {Trim(StringOf(v)) :
        v \in {w \in LiveKeys(i) :
                 ~(HasTable(t) /\ TieredIndex(TargetTable(t), t.lookupColumn, w) # 0)}}

\* C4: the missing count of an xlookup transformation, on the banner and in
\* the panel, is the number of distinct non-empty keys without a tier 1-3
\* match in its target table; each is counted once and none is dropped.
C4_MissingCount ==
  \A i \in 1..Len(activePreset.transformations) :
    LET t == activePreset.transformations[i]
    IN IsCompleteLookup(t) =>
         /\ Cardinality(GetMissingLookupValues(activePreset.transformations, i - 1,
                                               configuredData, supportSheets))
              = Cardinality(UnmatchedKeys(i))
         /\ MissingCount(activePreset.transformations, i - 1, configuredData, supportSheets)
              = Cardinality(UnmatchedKeys(i))

-----------------------------------------------------------------------------
(* Formula Evaluator claims *)

\* uploads and the formula and concat steps
NextFormula ==
  \/ UploadCsv
  \/ AddCustom
  \/ AddConcat
  \/ RemoveTransformation

SpecFormula == Init /\ [][NextFormula]_vars

\* step i is a custom transformation with a formula
IsFormulaStep(t) == t.type = "custom" /\ t.formula.op # "none"

\* the formula of step i fails on row r of the live run
FailsAt(r, i) ==
  /\ IsFormulaStep(activePreset.transformations[i])
  /\ ~EvalFormula(activePreset.transformations[i].formula, RowAt(r, i - 1)).ok

\* C5: when a custom formula fails on a row, the row's newColumnName holds
\* the string "Error", every later transformation still runs on that row,
\* the rows on which it succeeds hold its result, and the run publishes as
\* many processed rows as there are filtered rows.
C5_FormulaFaultIsolation ==
  /\ Len(processedData) = Len(filteredData)
  /\ \A r \in 1..Len(filteredData) :
       /\ r <= Len(processedData) =>
            processedData[r] = RowAt(r, Len(activePreset.transformations))
       /\ \A i \in 1..Len(activePreset.transformations) :
            LET t == activePreset.transformations[i]
            IN /\ RowAt(r, i) =
                    ApplyTransformation(RowAt(r, i - 1), t, filteredData, supportSheets).row
               /\ IsFormulaStep(t) =>
                    Get(RowAt(r, i), t.newColumnName) =
                      IF FailsAt(r, i) THEN ErrorValue
                      ELSE EvalFormula(t.formula, RowAt(r, i - 1)).v

\* a formula failed on one row and succeeded on another, and a later concat
\* step wrote its column into the failed row from the "Error" cell
C5_Witness ==
  /\ Len(activePreset.transformations) = 2
  /\ Len(processedData) = 2
  /\ activePreset.transformations[2].type = "concat"
  /\ \E r, q \in 1..Len(filteredData) :
       /\ FailsAt(r, 1)
       /\ ~FailsAt(q, 1)
       /\ Get(processedData[r], <<"T">>) = ErrorValue
       /\ Get(processedData[q], <<"T">>) = Num(25)
       /\ Get(processedData[r], <<"U">>) = Str(<<"b", "E", "r", "r", "o", "r">>)
  /\ formulaErrorCount = 1

-----------------------------------------------------------------------------
(* Template Mapper claims *)

\* uploads, the template library and the mapping editor
NextTemplate ==
  \/ UploadXlsx
  \/ HandleAddTemplate
  \/ HandleDeleteTemplate
  \/ HandleUpdateTemplateColumn
  \/ HandleTemplateSelect
  \/ HandleColumnMappingChange

SpecTemplate == Init /\ [][NextTemplate]_vars

\* uploads, the template library and the saved presets
NextPreset ==
  \/ UploadXlsx
  \/ HandleAddTemplate
  \/ HandleDeleteTemplate
  \/ HandleTemplateSelect
  \/ HandleSavePreset
  \/ HandleLoadPreset

SpecPreset == Init /\ [][NextPreset]_vars

\* a template mapping is configured
MappingConfigured ==
  ~activePreset.templateMapping.isNull /\ activePreset.templateMapping.templateId # ""

\* the columns of the template the mapping names, <<>> when none has its id
SchemaColumns ==
  IF \E k \in 1..Len(templates) : templates[k].id = activePreset.templateMapping.templateId
  THEN templates[CHOOSE k \in 1..Len(templates) :
                   templates[k].id = activePreset.templateMapping.templateId].columns
  ELSE <<>>

\* the mapping of a template column, Undef when the mapping set has no entry
MappingOf(column) == Get(activePreset.templateMapping.columnMappings, column.name)

\* C6: for every template column whose own constant is non-null, every
\* output template row holds that constant in that column, whatever the
\* ColumnMapping set holds for the column and whatever the processed row holds.
C6_FileConstantPrecedence ==
  MappingConfigured =>
    \A column \in Range(SchemaColumns) :
      column.constant # Null =>
        /\ Len(templateData) = Len(processedData)
        /\ \A r \in 1..Len(templateData) :
             /\ column.name \in DOMAIN templateData[r]
             /\ templateData[r][column.name] = column.constant

\* a column with a file constant is also mapped to a processed column that
\* holds another value, and the output rows hold the constant
C6_Witness ==
  /\ MappingConfigured
  /\ templateData # <<>>
  /\ \E column \in Range(SchemaColumns) :
       /\ column.constant # Null
       /\ MappingOf(column).t = "str"
       /\ ~IsConstMapping(MappingOf(column))
       /\ \E r \in 1..Len(processedData) :
            /\ MappingOf(column).s \in DOMAIN processedData[r]
            /\ Truthy(processedData[r][MappingOf(column).s])
            /\ processedData[r][MappingOf(column).s] # column.constant
            /\ templateData[r][column.name] = column.constant

\* C7: for a template column without a file constant whose mapping names a
\* processed column, each output row holds the processed row's value for
\* that column whenever the field is present in the row, the number 0
\* included, and the empty string only when the field is absent.
C7_MappedColumnValue ==
  MappingConfigured =>
    \A column \in Range(SchemaColumns) :
      (/\ column.constant = Null
       /\ MappingOf(column).t = "str"
       /\ ~IsConstMapping(MappingOf(column))) =>
        \A r \in 1..Len(templateData) :
          templateData[r][column.name] =
            IF MappingOf(column).s \in DOMAIN processedData[r]
            THEN processedData[r][MappingOf(column).s]
            ELSE Str(<<>>)

\* C8: whenever a template mapping is configured, the template dataset has
\* as many rows as the transformed dataset, in the same order, and the field
\* set of each output row is the set of column names of the TemplateSchema.
C8_TemplateShape ==
  MappingConfigured =>
    /\ Len(templateData) = Len(processedData)
    /\ \A r \in 1..Len(templateData) :
         DOMAIN templateData[r] = {SchemaColumns[k].name : k \in 1..Len(SchemaColumns)}

-----------------------------------------------------------------------------
(* Numeric comparison claims *)

\* delimited-text uploads and the greaterThan / lessThan filters
NextCompare ==
  \/ UploadCsv
  \/ AddCompareFilter
  \/ RemoveFilter

SpecCompare == Init /\ [][NextCompare]_vars

\* the value is a number, or a text that is not blank and reads as a number
IsNumeric(v) ==
  \/ v.t \in {"num", "inf"}
  \/ v.t = "str" /\ Trim(v.s) # <<>> /\ StringToNumber(v.s).t # "nan"

\* C11: under a greaterThan or lessThan filter, a row whose field is absent,
\* empty, null or non-numeric text is excluded, and so is every row when the
\* filter value is empty or non-numeric text: each surviving row has a
\* numeric field and was compared with a numeric filter value.
C11_CompareNonNumeric ==
  \A f \in Range(activePreset.filters) :
    f.operator \in {"greaterThan", "lessThan"} =>
      \A row \in Range(filteredData) :
        /\ IsNumeric(Get(row, f.column))
        /\ IsNumeric(Str(f.value))

-----------------------------------------------------------------------------
(* Transformation ordering claims *)

\* uploads and the arithmetic and concat steps
NextOrdering ==
  \/ UploadCsv
  \/ AddArithmetic
  \/ AddConcat
  \/ RemoveTransformation

SpecOrdering == Init /\ [][NextOrdering]_vars

\* the values a row holds in a list of columns, undefined where the column is
\* absent from the row
ReadAll(row, columns) ==
  [k \in 1..Len(columns) |-> IF columns[k] \in DOMAIN row THEN row[columns[k]] ELSE Undef]

\* C12: on every row, step i starts from the row as steps 1..i-1 left it and
\* changes nothing but its newColumnName, which it computes from the values
\* the row holds at that moment (a column written or overwritten earlier is
\* read with its new value, a column nothing has produced, the step's own
\* newColumnName included, is read as absent); every run publishes the rows
\* after the last step, so no such step raises.
C12_TransformationOrdering ==
  /\ Len(processedData) = Len(filteredData)
  /\ \A r \in 1..Len(filteredData) :
       /\ RowAt(r, 0) = filteredData[r]
       /\ processedData[r] = RowAt(r, Len(activePreset.transformations))
       /\ \A i \in 1..Len(activePreset.transformations) :
            LET t == activePreset.transformations[i]
                before == RowAt(r, i - 1)
                after == RowAt(r, i)
                read == ReadAll(before, t.sourceColumns)
            IN /\ DOMAIN before \subseteq DOMAIN after
               /\ DOMAIN after \subseteq DOMAIN before \cup {t.newColumnName}
               /\ \A c \in DOMAIN before : c # t.newColumnName => after[c] = before[c]
               /\ t.type \in ArithmeticTypes =>
                    IF Len(read) = 2
                    THEN Get(after, t.newColumnName) = Arithmetic(t.type, read[1], read[2])
                    ELSE after = before
               /\ t.type = "concat" => Get(after, t.newColumnName) = Str(JoinAll(read))

\* the first step doubled the original column V of a row and the second step
\* squared the doubled value, while on a row without V both steps wrote NaN
C12_Witness ==
  /\ Len(activePreset.transformations) = 2
  /\ activePreset.transformations[1].newColumnName = <<"V">>
  /\ activePreset.transformations[2].sourceColumns = << <<"V">>, <<"V">> >>
  /\ \E r, q \in 1..Len(processedData) :
       /\ Get(filteredData[r], <<"V">>) = Str(<<"5">>)
       /\ Get(processedData[r], <<"V">>) = Num(10)
       /\ Get(processedData[r], <<"T">>) = Num(100)
       /\ <<"V">> \notin DOMAIN filteredData[q]
       /\ Get(processedData[q], <<"V">>) = NaN
       /\ Get(processedData[q], <<"T">>) = NaN

\* uploads and the arithmetic and formula steps
NextSwap ==
  \/ UploadCsv
  \/ AddArithmetic
  \/ AddNumbered
  \/ AddCustom
  \/ RemoveTransformation

SpecSwap == Init /\ [][NextSwap]_vars

\* the columns a transformation reads: its sourceColumns, the columns of a
\* lookup and the identifiers of a formula
ReadColumns(t) ==
  Range(t.sourceColumns)
    \cup (IF t.type = "xlookup" THEN {t.lookupColumn, t.returnColumn} ELSE {})
    \cup (IF t.type = "custom" THEN {t.formula.a, t.formula.b} \ {<<>>} ELSE {})

\* neither transformation reads or writes a column the other writes
DisjointColumns(a, b) ==
  /\ a.newColumnName # b.newColumnName
  /\ a.newColumnName \notin ReadColumns(b)
  /\ b.newColumnName \notin ReadColumns(a)

\* C13: exchanging two neighbouring transformations whose source and target
\* columns are pairwise disjoint leaves every field value of every processed
\* row as it is, whatever the types of the two transformations.
C13_SwapDisjoint ==
  \A i \in 1..(Len(activePreset.transformations) - 1) :
    LET a == activePreset.transformations[i]
        b == activePreset.transformations[i + 1]
        swapped == [activePreset.transformations EXCEPT ![i] = b, ![i + 1] = a]
    IN DisjointColumns(a, b) =>
         \A r \in 1..Len(filteredData) :
           TransformRow(filteredData[r], swapped, filteredData, supportSheets).row
             = RowAt(r, Len(activePreset.transformations))

-----------------------------------------------------------------------------
(* Validation claims *)

\* uploads of one or two files, the filter editor and the source column
NextValidation ==
  \/ UploadCsv
  \/ UploadSeveral
  \/ AddContainsFilter
  \/ RemoveFilter
  \/ HandleToggleSourceFileColumn

SpecValidation == Init /\ [][NextValidation]_vars

\* two or more sources are loaded and their header rows differ in length
HeaderCountsDiffer(files, headerRow) ==
  /\ Len(files) >= 2
  /\ \E i, j \in 1..Len(files) :
       /\ Len(files[i].rawData) > headerRow
       /\ Len(files[j].rawData) > headerRow
       /\ Len(files[i].rawData[headerRow + 1]) # Len(files[j].rawData[headerRow + 1])

\* C14: a step after which sources with different header column counts are
\* loaded, the step that loads them included, runs no pipeline: the
\* configured, processed and template datasets stay what they were.
C14_MismatchBlocksPipeline ==
  [][HeaderCountsDiffer(inputFiles', activePreset'.headerRow) =>
       UNCHANGED <<configuredData, processedData, templateData>>]_vars

-----------------------------------------------------------------------------
(* Preset interchange claims *)

\* uploads, saved presets and imports of documents from elsewhere
NextImport ==
  \/ UploadXlsx
  \/ HandleSavePreset
  \/ HandleLoadPreset
  \/ HandleImportPresetsFile
  \/ ReaderOnLoad
  \/ ClearNotification

SpecImport == Init /\ [][NextImport]_vars

\* the step is the end of an import
ImportEnds == readerText # NoDocument /\ readerText' = NoDocument

\* the document is not valid JSON, is not an array, or holds an entry
\* without id or without name
IsRejected(doc) ==
  \/ doc.kind = "garbage"
  \/ doc.kind # "array"
  \/ \E i \in 1..Len(doc.entries) :
       \/ "id" \notin DOMAIN doc.entries[i]
       \/ "name" \notin DOMAIN doc.entries[i]

\* C15: an import of a document that is not valid JSON, is not an array or
\* holds an entry without id or name ends with an error notification and
\* leaves the preset list and the active preset exactly as they were.
C15_ImportFailureKeepsConfiguration ==
  [][ImportEnds /\ IsRejected(readerText) =>
       /\ notification'.type = "error"
       /\ UNCHANGED <<presets, activePreset>>]_vars

\* an import has just been rejected for its format while a preset is saved
\* and active
C15_Witness ==
  /\ notification = [type |-> "error", message |-> "Invalid preset file format."]
  /\ readerText = NoDocument
  /\ Len(presets) = 1
  /\ activePreset = presets[1]

OptionalFields ==
  {"headerRow", "selectedColumns", "filters", "transformations",
   "includeSourceFileColumn", "templateMapping"}

\* the value a preset must hold for an optional field after the import of
\* the entry: the imported one, or the default of the field
Imported(entry, field) ==
  IF field \in DOMAIN entry THEN entry[field]
  ELSE CASE field = "headerRow" -> 0
         [] field = "includeSourceFileColumn" -> TRUE
         [] field = "templateMapping" -> NoTemplateMapping
         [] OTHER -> <<>>

\* C16: a document whose entries all have id and name is accepted whatever
\* optional fields they lack; afterwards the list holds one preset per entry,
\* each with all six optional fields: the imported value where the entry had
\* one, else 0, [], [], [], true and null.
C16_ImportDefaultFill ==
  [][ImportEnds /\ ~IsRejected(readerText) =>
       /\ notification'.type = "success"
       /\ Len(presets') = Len(readerText.entries)
       /\ \A i \in 1..Len(readerText.entries) :
            /\ OptionalFields \subseteq DOMAIN presets'[i]
            /\ \A field \in OptionalFields :
                 presets'[i][field] = Imported(readerText.entries[i], field)]_vars

\* the list holds an imported preset that had none of the optional fields,
\* now with every default, next to one that kept its header row, its filter
\* and its source column flag
C16_Witness ==
  /\ notification = [type |-> "success", message |-> "Presets imported successfully!"]
  /\ Len(presets) = 2
  /\ presets[1] = [DefaultPreset EXCEPT !.id = "p1", !.name = "Old"]
  /\ presets[2].headerRow = 1
  /\ Len(presets[2].filters) = 1
  /\ ~presets[2].includeSourceFileColumn
  /\ presets[2].transformations = <<>>

\* the template library, saved presets, exports and imports of the exported
\* document
NextRoundTrip ==
  \/ HandleAddTemplate
  \/ HandleTemplateSelect
  \/ HandleSavePreset
  \/ HandleExportPresets
  \/ HandleImportSavedFile
  \/ ReaderOnLoad

SpecRoundTrip == Init /\ [][NextRoundTrip]_vars

-----------------------------------------------------------------------------
(* Dataset assembly: uploads of one and of two files, the placeholder header
   switch and the source file column switch. *)

NextAssembly ==
  \/ UploadCsv
  \/ UploadSeveral
  \/ HandleUsePlaceholderHeaderChange
  \/ HandleToggleSourceFileColumn

SpecAssembly == Init /\ [][NextAssembly]_vars

\* the header list of the loaded inputs
HeaderList ==
  IF usePlaceholderHeader THEN placeholderHeaders
  ELSE inputFiles[1].rawData[activePreset.headerRow + 1]

\* the data rows of the k-th input: every row in placeholder mode, the rows
\* after the header row otherwise
SourceRows(k) ==
  LET rawData == inputFiles[k].rawData
      skipped == IF usePlaceholderHeader THEN 0 ELSE activePreset.headerRow + 1
  IN [j \in 1..(IF Len(rawData) > skipped THEN Len(rawData) - skipped ELSE 0) |->
        rawData[skipped + j]]

\* the number of data rows of the inputs ahead of the k-th
RECURSIVE RowsBefore(_)
RowsBefore(k) == IF k = 1 THEN 0 ELSE RowsBefore(k - 1) + Len(SourceRows(k - 1))

\* record is what the claim describes for the data row of the input name
Carries(record, name, row) ==
  LET key(c) == StringOf(HeaderList[c])
  IN /\ (SourceFile \in DOMAIN record) = activePreset.includeSourceFileColumn
     /\ activePreset.includeSourceFileColumn => record[SourceFile] = Str(name)
     /\ \A c \in 1..Len(HeaderList) :
          IF c <= Len(row)
          THEN key(c) \in DOMAIN record /\ record[key(c)] = row[c]
          ELSE key(c) \notin DOMAIN record
     /\ DOMAIN record \subseteq {SourceFile} \cup {key(c) : c \in 1..Len(HeaderList)}

\* C18: with inputs loaded and no validation error, the assembled dataset
\* (the configured rows, every column being selected) is the concatenation,
\* in input order, of the data rows of each input: the rows after the header
\* row, or every row in placeholder mode.  Each record carries the source
\* file field exactly when the source file column is enabled, and for each
\* header at index k the cell at index k when the row has one; the fields
\* of the headers beyond the end of a short row are absent.
C18_DatasetAssembly ==
  (inputFiles # <<>> /\ ~validationError
   /\ activePreset.selectedColumns = Indices(Len(HeaderList)))
  => /\ Len(configuredData) = RowsBefore(Len(inputFiles) + 1)
     /\ \A k \in 1..Len(inputFiles) : \A j \in 1..Len(SourceRows(k)) :
          Carries(configuredData[RowsBefore(k) + j], inputFiles[k].name, SourceRows(k)[j])

\* two inputs in placeholder mode with the source file column: the header
\* row of the second input is a record of the dataset, after the rows of the
\* first, and a short row of the first lacks the second placeholder column
C18_Witness ==
  /\ usePlaceholderHeader /\ ~validationError
  /\ Len(inputFiles) = 2
  /\ activePreset.includeSourceFileColumn
  /\ Len(placeholderHeaders) = 2
  /\ Len(configuredData) = Len(inputFiles[1].rawData) + Len(inputFiles[2].rawData)
  /\ \E i \in 1..Len(inputFiles[1].rawData) :
       /\ Len(inputFiles[1].rawData[i]) = 1
       /\ StringOf(placeholderHeaders[2]) \notin DOMAIN configuredData[i]
  /\ configuredData[Len(inputFiles[1].rawData) + 1][StringOf(placeholderHeaders[1])]
       = MainHeader[1]

-----------------------------------------------------------------------------
(* Lookup result: uploads, single-row support sheets read from workbooks and
   the lookups into them. *)

NextResult ==
  \/ UploadCsv
  \/ AddSheetLookup
  \/ RemoveTransformation
  \/ HandleAddWorkbookSheet
  \/ HandleDeleteSupportSheet

SpecResult == Init /\ [][NextResult]_vars

\* the row of the target table that qualifies for the key, 0 when the sheet
\* is gone or no row matches in any tier
QualifyingIndex(t, key) ==
  IF HasTable(t) THEN TieredIndex(TargetTable(t), t.lookupColumn, key) ELSE 0

\* C19: for a complete xlookup, newColumnName receives the sentinel
\* Not found: "<key>" if and only if the named support sheet no longer exists
\* or no row of the target table matches the key in any tier; whenever some
\* row matches, newColumnName receives the returnColumn value of the first
\* qualifying row as it is, whatever that value is.
C19_LookupResult ==
  \A i \in 1..Len(activePreset.transformations) :
    LET t == activePreset.transformations[i]
    IN IsCompleteLookup(t) =>
         \A r \in 1..Len(filteredData) :
           LET key == Get(RowAt(r, i - 1), t.sourceColumns[1])
               j == QualifyingIndex(t, key)
               written == Get(RowAt(r, i), t.newColumnName)
           IN /\ (written = NotFound(key)) <=> (j = 0)
              /\ j # 0 => written = Get(TargetTable(t)[j], t.returnColumn)

-----------------------------------------------------------------------------
(* Auditor replay base: uploads, filters, support sheets and the lookups *)

NextAudit ==
  \/ UploadCsv
  \/ AddContainsFilter
  \/ RemoveFilter
  \/ AddSheetLookup
  \/ AddMainLookup
  \/ RemoveTransformation
  \/ HandleAddSupportSheet

SpecAudit == Init /\ [][NextAudit]_vars

\* C20: the auditor replays over the rows that passed the filter list and
\* collects its keys from them: every key it reports missing for an xlookup
\* is the trimmed key of a row that passed the filters at that step, so a
\* key occurring only in rows the filters excluded is never reported.
C20_AuditorReplayBase ==
  \A i \in 1..Len(activePreset.transformations) :
    IsCompleteLookup(activePreset.transformations[i]) =>
      GetMissingLookupValues(activePreset.transformations, i - 1, configuredData,
                             supportSheets)
        \subseteq {Trim(StringOf(v)) : v \in LiveKeys(i)}

-----------------------------------------------------------------------------
(* Error counter: uploads, formula steps, timer ticks and Reset *)

NextCounter ==
  \/ UploadXlsx
  \/ AddCustom
  \/ RemoveTransformation
  \/ TimerTick
  \/ HandleReset

SpecCounter == Init /\ [][NextCounter]_vars

\* the (row, custom transformation) evaluations that fail in a run on the
\* current rows and configuration
FailedEvaluations ==
  {p \in (1..Len(filteredData)) \X (1..Len(activePreset.transformations)) :
     FailsAt(p[1], p[2])}

\* C21: while inputs are loaded and no validation error blocks the pipeline
\* (the most recent run is then a run on the current rows and configuration,
\* whether an edit, an upload or a timer tick started it), the formula error
\* counter is the number of (row, custom transformation) evaluations that
\* fail in that run: zero without a failure, never the sum over several runs.
C21_RunScopedErrorCounter ==
  inputFiles # <<>> /\ ~validationError =>
    formulaErrorCount = Cardinality(FailedEvaluations)

\* two rows and two formula steps, one failing on both rows and one on none,
\* with the interval live: the counter is 2
C21_Witness ==
  /\ liveTimers = 1
  /\ Len(filteredData) = 2
  /\ Len(activePreset.transformations) = 2
  /\ \A i \in 1..2 : IsFormulaStep(activePreset.transformations[i])
  /\ \A r \in 1..2 : FailsAt(r, 1) /\ ~FailsAt(r, 2)
  /\ formulaErrorCount = 2


-----------------------------------------------------------------------------
(* Malformed steps: uploads, arithmetic and lookup steps, foreign imports *)

NextMalformed ==
  \/ UploadCsv
  \/ AddArithmetic
  \/ AddSheetLookup
  \/ RemoveTransformation
  \/ HandleImportForeignFile
  \/ ReaderOnLoad

SpecMalformed == Init /\ [][NextMalformed]_vars

\* a step the pipeline cannot carry out: no list of source columns, an
\* arithmetic step of another arity than 2, a lookup that lacks its target,
\* a column or its key, a formula step without formula
IsMalformed(transform) ==
  \/ "sourceColumns" \notin DOMAIN transform
  \/ transform.type \in ArithmeticTypes /\ Len(transform.sourceColumns) # 2
  \/ transform.type = "xlookup" /\ ~IsCompleteLookup(transform)
  \/ transform.type = "custom" /\ transform.formula = NoFormula

\* the configured steps without the malformed ones
SoundSteps == SelectSeq(activePreset.transformations, LAMBDA t : ~IsMalformed(t))

\* the names the malformed steps would write
MalformedFields ==
  {activePreset.transformations[i].newColumnName :
     i \in {j \in 1..Len(activePreset.transformations) :
              IsMalformed(activePreset.transformations[j])}}

\* C22: with inputs loaded and no validation error, the run over the current
\* configuration completes whatever malformed steps it holds: the processed
\* rows are the rows that pass the filters, and on every field but those the
\* malformed steps name they are what the sound steps alone produce.
C22_MalformedStepsAreNoOps ==
  inputFiles # <<>> /\ ~validationError =>
    LET filtered == ApplyFilters(configuredData, activePreset.filters)
    IN /\ Len(processedData) = Len(filtered)
       /\ \A r \in 1..Len(filtered) :
            LET sound == TransformRow(filtered[r], SoundSteps, filtered, supportSheets).row
            IN \A c \in (DOMAIN sound \cup DOMAIN processedData[r]) \ MalformedFields :
                 /\ c \in DOMAIN sound
                 /\ c \in DOMAIN processedData[r]
                 /\ processedData[r][c] = sound[c]


-----------------------------------------------------------------------------
(* Arithmetic arity: uploads and arithmetic steps *)

NextArity ==
  \/ UploadCsv
  \/ AddArithmetic
  \/ RemoveTransformation

SpecArity == Init /\ [][NextArity]_vars

\* Number(x) op Number(y) for the four arithmetic types
Coerced(type, x, y) ==
  IF type = "multiply" THEN NumMul(ToNumber(x), ToNumber(y))
  ELSE IF type = "add" THEN NumAdd(ToNumber(x), ToNumber(y))
  ELSE IF type = "subtract" THEN NumSub(ToNumber(x), ToNumber(y))
  ELSE NumDiv(ToNumber(x), ToNumber(y))

\* C23: the processed rows are the rows the steps leave, and an arithmetic
\* step with another number of source columns than 2 leaves every row as it
\* found it, while one with exactly 2 writes its field on every row with the
\* operation applied to the numeric coercions of the two source values
\* (NaN or an infinity included), all other fields untouched.
C23_ArithmeticArity ==
  /\ Len(processedData) = Len(filteredData)
  /\ \A r \in 1..Len(processedData) :
       /\ processedData[r] = RowAt(r, Len(activePreset.transformations))
       /\ \A i \in 1..Len(activePreset.transformations) :
            LET t == activePreset.transformations[i]
                before == RowAt(r, i - 1)
                after == RowAt(r, i)
            IN t.type \in ArithmeticTypes =>
                 IF Len(t.sourceColumns) # 2
                 THEN after = before
                 ELSE /\ DOMAIN after = DOMAIN before \cup {t.newColumnName}
                      /\ after[t.newColumnName] =
                           Coerced(t.type, Get(before, t.sourceColumns[1]),
                                   Get(before, t.sourceColumns[2]))
                      /\ \A c \in DOMAIN before \ {t.newColumnName} : after[c] = before[c]

\* two rows under a step of one source column and a step of two: the second
\* wrote a number on one row and NaN on the other, the first wrote nothing
C23_Witness ==
  /\ Len(processedData) = 2
  /\ Len(activePreset.transformations) = 2
  /\ Len(activePreset.transformations[1].sourceColumns) = 1
  /\ activePreset.transformations[1].newColumnName \notin DOMAIN processedData[1]
  /\ Len(activePreset.transformations[2].sourceColumns) = 2
  /\ processedData[1][activePreset.transformations[2].newColumnName].t = "num"
  /\ processedData[2][activePreset.transformations[2].newColumnName] = NaN


-----------------------------------------------------------------------------
(* Refresh timer: uploads, mismatching uploads, edits, ticks and Reset *)

NextTimer ==
  \/ UploadXlsx
  \/ UploadSeveral
  \/ AddConcat
  \/ RemoveTransformation
  \/ TimerTick
  \/ HandleReset

SpecTimer == Init /\ [][NextTimer]_vars

\* C24: at most one refresh interval is live at any time (the one before is
\* cleared when the effect runs again), the live one is the one the ref
\* holds, and none is live while no input is loaded or a validation error
\* is set.
C24_SingleRefreshTimer ==
  /\ liveTimers <= 1
  /\ liveTimers = 1 => previewTimerRef = "live"
  /\ (inputFiles = <<>> \/ validationError) => liveTimers = 0

\* an interval that was set, set again after an edit and cleared when a
\* mismatching upload set the validation error
C24_Witness ==
  /\ validationError
  /\ inputFiles # <<>>
  /\ activePreset.transformations # <<>>
  /\ previewTimerRef = "cleared"
  /\ liveTimers = 0


\* the names the configured steps write
WrittenFields ==
  {activePreset.transformations[i].newColumnName : i \in 1..Len(activePreset.transformations)}

\* the processed and template rows stem from the configured rows: one
\* processed row for each configured row that passes the filters, holding that
\* row's fields wherever no step writes them, and template rows, if any, one
\* for each processed row
StagesAgree ==
  LET filtered == ApplyFilters(configuredData, activePreset.filters)
  IN /\ Len(processedData) = Len(filtered)
     /\ \A r \in 1..Len(filtered) :
          \A c \in DOMAIN filtered[r] \ WrittenFields :
            c \in DOMAIN processedData[r] /\ processedData[r][c] = filtered[r][c]
     /\ Len(templateData) \in {0, Len(processedData)}

\* C25: a pipeline run that publishes a new configured dataset, a run that
\* aborts part-way included, leaves processed and template datasets that
\* stem from that configured dataset, never the ones of an earlier run.
C25_AtomicStagePublication ==
  [][configuredData' # configuredData => StagesAgree']_vars


-----------------------------------------------------------------------------
(* Formula scope: uploads and formula steps *)

NextScope ==
  \/ UploadCsv
  \/ AddCustom
  \/ AddSum
  \/ RemoveTransformation

SpecScope == Init /\ [][NextScope]_vars

\* a string that reads as a number: "5", "0", "0.0"
IsNumericString(v) ==
  v.t = "str" /\ Trim(v.s) # <<>> /\ ToNumber(v).t = "num"

\* C26: a formula A + B over two fields that hold numeric strings ("0"
\* included) yields their numeric sum on every row, the fields being bound
\* to their numbers in the evaluation scope.
C26_FormulaScopeBinding ==
  \A r \in 1..Len(filteredData) :
    \A i \in 1..Len(activePreset.transformations) :
      LET t == activePreset.transformations[i]
          before == RowAt(r, i - 1)
          after == RowAt(r, i)
      IN (/\ IsFormulaStep(t)
          /\ t.formula.op = "add"
          /\ t.formula.a \in DOMAIN before
          /\ t.formula.b \in DOMAIN before
          /\ IsNumericString(before[t.formula.a])
          /\ IsNumericString(before[t.formula.b]))
         => /\ r <= Len(processedData)
            /\ i = Len(activePreset.transformations) => processedData[r] = after
            /\ after[t.newColumnName] =
                 NumAdd(ToNumber(before[t.formula.a]), ToNumber(before[t.formula.b]))


-----------------------------------------------------------------------------
(* The two auditors side by side *)

\* C27: for every xlookup transformation the missing count of the warning
\* banner is the number of entries the download lists, so the banner lists
\* the transformation (count above 0) exactly when the download is not empty.
C27_AuditorsAgree ==
  \A i \in 1..Len(activePreset.transformations) :
    activePreset.transformations[i].type = "xlookup" =>
      MissingCount(activePreset.transformations, i - 1, configuredData, supportSheets)
        = Cardinality(GetMissingLookupValues(activePreset.transformations, i - 1,
                                             configuredData, supportSheets))


-----------------------------------------------------------------------------
(* Stored presets: uploads, edits, saved and deleted presets, reloads *)

NextPersist ==
  \/ UploadXlsx
  \/ AddConcat
  \/ HandleSavePreset
  \/ HandleDeletePreset
  \/ Reload

SpecPersist == Init /\ [][NextPersist]_vars

\* C28: the stored presets mirror the presets in memory: nothing is stored
\* only while there is no preset, and what is stored is the list in memory,
\* so that a reload brings back exactly the presets that were there and a
\* deleted preset, the last one included, does not come back.
C28_StoredPresetsMirror ==
  IF storedPresets = NoDocument THEN presets = <<>>
  ELSE storedPresets = Stringify(presets)


-----------------------------------------------------------------------------
(* Loading presets: uploads, header row and selection changes, saved presets *)

NextLoad ==
  \/ UploadCsv
  \/ HandleHeaderRowChange
  \/ HandleSelectedColumnsChange
  \/ HandleSavePreset
  \/ HandleLoadPreset

SpecLoad == Init /\ [][NextLoad]_vars

\* C29: a step that loads a saved preset, with the effects it triggers, ends
\* with the active configuration holding the preset's selected columns,
\* filters, transformations, header row and template mapping, whatever the
\* header row was before.
C29_LoadAppliesPreset ==
  [][\A i \in 1..Len(presets) :
       LoadPreset(i) =>
         /\ activePreset'.headerRow = presets[i].headerRow
         /\ activePreset'.filters = presets[i].filters
         /\ activePreset'.transformations = presets[i].transformations
         /\ activePreset'.templateMapping = presets[i].templateMapping
         /\ activePreset'.selectedColumns = presets[i].selectedColumns]_vars


-----------------------------------------------------------------------------
(* Template references *)

\* C30: the template mapping of the active preset is null or names a
\* template that exists, and a configured mapping yields one template row
\* for each processed row.
C30_NoDanglingTemplate ==
  MappingConfigured =>
    /\ FindTemplate(templates, activePreset.templateMapping.templateId) # 0
    /\ Len(templateData) = Len(processedData)

=========================================================================
